---- MODULE Spec2Model ----
(***************************************************************************)
(* A model of junior-ledger's client-side caching and synchronisation:     *)
(* the Canvas file cache reconciler of the course assistant, the           *)
(* assignment aggregations, the auto-refresh timers, the folder access     *)
(* prober of the course page and the hidden-course / calendar selection    *)
(* state.  Each concern has its own specification over the shared          *)
(* variables; the variables of the other concerns stay at their initial    *)
(* values.                                                                 *)
(***************************************************************************)
EXTENDS Integers, Sequences, FiniteSets, TLC

VARIABLES
  canvasToken,      \* TRUE iff localStorage holds a Canvas token
  strictMode,       \* how the assistant's module is evaluated (see Classify)
  remote,           \* Canvas: file id -> metadata of the file as it is now
  cache,            \* localStorage junior-ledger-canvas-files-<course>: CachedCanvasFile list
  pc,               \* per pass of extractCourseFiles: where it is suspended
  snap,             \* per pass: cachedCanvasFiles read at its start (cachedFilesMap)
  supportedFiles,   \* per pass: supportedCanvasFiles, the listing after the filters
  filesToDownload,  \* per pass: the download-needed list
  filesToUse,       \* per pass: cached entries to use
  batchStart,       \* per pass: i of the batch loop
  results,          \* per pass: downloadedBase64Data of the batch in flight
  ctxFiles,         \* per pass: canvas ids whose bytes went to extraction last
  isExtractingFiles,\* the assistant's isExtractingFiles state
  failedIds,        \* per pass: ids whose download failed in its latest run (history)
  caughtError,      \* per pass: the try around the Canvas work has thrown
  now,              \* the clock (Date.now()), in minutes
  canvasAssignments,\* Canvas: the assignments of the courses
  assignCache,      \* localStorage junior-ledger-assignments-<course>
  lastAgg,          \* the upcoming list the latest aggregation computed
  liveTimers,       \* per consumer: the intervals it set that the browser still runs
  listeners,        \* per consumer: its autoRefreshIntervalChanged listeners on window
  storedInterval,   \* localStorage junior-ledger-auto-refresh-interval: <<>> or <<minutes>>
  route,            \* the page the router shows
  coursesLength,    \* courses.length of the courses provider's state
  timer,            \* per consumer: its interval handle (intervalRef.current)
  lastEvent,        \* what the latest step of the timer model was
  prevInterval,     \* the interval in force before the latest settings change
  sinceChange,      \* minutes passed since the latest settings change (capped)
  canvasFolders,    \* Canvas: folder id -> metadata of the course's folders
  pagePhase,        \* course page: "mounted", "loaded" (loadFiles settled), "toggled"
  folders,          \* course page state: ids of the folders loadFiles listed
  restrictedFolders,\* course page state: the restricted set
  expandedFolders,  \* course page state: the expanded set
  folderFiles,      \* course page state: folder id -> <<>> or <<number of files listed>>
  probes,           \* outcome of testFolderAccess for each folder loadFiles probed
  lastToggle,       \* what the latest toggleFolder did
  canvasEvents,     \* Canvas: ids of the courses that have calendar events in range
  hiddenCourses,    \* localStorage junior-ledger-hidden-courses: list of course ids
  savedSelection,   \* localStorage calendar selection: <<>> or <<set of course ids>>
  courses,          \* courses provider state: ids of the courses it lists
  calendarOpen,     \* TRUE iff the calendar page is mounted
  selectedCourses,  \* calendar page state: <<>> (null) or <<set of course ids>>
  events,           \* calendar page state: course ids whose events were fetched last
  contextCodes,     \* course ids of the context codes of the latest calendar fetch
  store,            \* localStorage: the hidden list, the token and the data keys of course 1
  lastOp,           \* the latest setter called on the store and how it ended
  call,             \* the gateway or calendar function called last, its input and its result
  validTokens,      \* the tokens Canvas accepts
  storedToken,      \* the Canvas token in localStorage, or none
  syncToken,        \* the token typed into the sync form
  syncPc,           \* where handleSync is: idle, validating or refreshing
  syncResponse,     \* the status Canvas answered the validation with
  syncError,        \* the error the sync page shows, or none
  isSuccess,        \* the sync page shows its success message
  refreshCount      \* course refreshes the sync page has started

fileVars == <<strictMode, remote, cache, pc, snap, supportedFiles,
              filesToDownload, filesToUse, batchStart, results, ctxFiles,
              isExtractingFiles, failedIds, caughtError>>

assignVars == <<now, canvasAssignments, assignCache, lastAgg>>

timerVars == <<storedInterval, route, coursesLength, timer, lastEvent,
               prevInterval, sinceChange,
              liveTimers, listeners>>

folderVars == <<canvasFolders, pagePhase, folders, restrictedFolders,
                expandedFolders, folderFiles, probes, lastToggle>>

calVars == <<canvasEvents, hiddenCourses, savedSelection, courses, calendarOpen,
             selectedCourses, events, contextCodes>>

storeVars == <<store, lastOp>>

callVars == <<call>>

syncVars == <<validTokens, storedToken, syncToken, syncPc, syncResponse, syncError, isSuccess, refreshCount>>

vars == <<canvasToken, fileVars, assignVars, timerVars, folderVars, calVars, storeVars, callVars, syncVars>>

-----------------------------------------------------------------------------
(* Bounds *)
NumFiles == 2
MaxVer == 2
MaxPasses == 2
NumCourses == 2
MaxAssign == 2
MaxNow == 6
MaxInterval == 2
NumFolders == 2
MaxFilesCount == 1
MaxUploads == 1
NumListed == 11

(* Program constants *)
BATCH_SIZE == 10

FileIds == 1..NumFiles
Passes == 1..MaxPasses
CourseIds == 1..NumCourses
(* The assistant of the open course page runs one pass at a time *)
MainPass == {1}
Min(a, b) == IF a < b THEN a ELSE b

-----------------------------------------------------------------------------
(* Generic sequence helpers *)

Range(s) == {s[k] : k \in 1..Len(s)}

-----------------------------------------------------------------------------
(* isFileTypeSupported: by extension first, then by MIME type *)
SupportedExt == {"pdf", "docx", "xlsx", "pptx", "txt", "md"}
SupportedMime == {"application/pdf", "wordprocessingml.document",
                  "spreadsheetml.sheet", "presentationml.presentation"}
TextMime == {"text/plain", "text/csv"}

isFileTypeSupported(ext, contentType) ==
  \/ ext \in SupportedExt
  \/ contentType \in SupportedMime
  \/ contentType \in TextMime

(* The shapes of Canvas file the listing can hold *)
FileProfiles ==
  { [ext |-> "pdf", content_type |-> "application/pdf", locked |-> FALSE, hidden |-> FALSE],
    [ext |-> "pdf", content_type |-> "application/pdf", locked |-> TRUE,  hidden |-> FALSE],
    [ext |-> "pdf", content_type |-> "application/pdf", locked |-> FALSE, hidden |-> TRUE],
    [ext |-> "png", content_type |-> "image/png",       locked |-> FALSE, hidden |-> FALSE],
    [ext |-> "",    content_type |-> "text/plain",      locked |-> FALSE, hidden |-> FALSE] }

PlainProfile ==
  [ext |-> "pdf", content_type |-> "application/pdf", locked |-> FALSE, hidden |-> FALSE]

CanvasFile(id, prof, modified) ==
  [id |-> id, modified_at |-> modified, ext |-> prof.ext,
   content_type |-> prof.content_type, locked |-> prof.locked, hidden |-> prof.hidden]

(* The course's files as Canvas lists them now, in listing order *)
RemoteListing == [k \in 1..Cardinality(DOMAIN remote) |-> remote[k]]

-----------------------------------------------------------------------------
(* courseStorage: the cached Canvas file list *)

NoEntry == [canvasId |-> 0, modifiedAt |-> 0, data |-> 0]

(* cachedFilesMap.get(id) over the map built from a list: the last entry wins *)
RECURSIVE MapGet(_, _)
MapGet(files, id) ==
  IF files = <<>> THEN NoEntry
  ELSE LET rest == MapGet(Tail(files), id)
       IN IF rest # NoEntry THEN rest
          ELSE IF Head(files).canvasId = id THEN Head(files) ELSE NoEntry

(* files.findIndex(f => f.canvasId === id), 0 when there is none *)
RECURSIVE FindIndexFrom(_, _, _)
FindIndexFrom(files, id, k) ==
  IF k > Len(files) THEN 0
  ELSE IF files[k].canvasId = id THEN k ELSE FindIndexFrom(files, id, k + 1)

(* A variant of cacheCanvasFile that appends whatever the list holds *)
cacheCanvasFileAlwaysPushes(files, file) == Append(files, file)

(* cacheCanvasFile: replace the entry of the same canvasId, or append *)
cacheCanvasFile(files, file) ==
  LET existingIndex == FindIndexFrom(files, file.canvasId, 1)
  IN IF existingIndex >= 1
       THEN [files EXCEPT ![existingIndex] = file]
       ELSE Append(files, file)

-----------------------------------------------------------------------------
(* extractCourseFiles: the reconciliation pass *)

(* lines 90-98: drop locked, hidden and already seen files *)
RECURSIVE DedupFilter(_, _)
DedupFilter(files, seenIds) ==
  IF files = <<>> THEN <<>>
  ELSE LET file == Head(files)
       IN IF file.locked \/ file.hidden \/ file.id \in seenIds
            THEN DedupFilter(Tail(files), seenIds)
            ELSE <<file>> \o DedupFilter(Tail(files), seenIds \cup {file.id})

(* lines 100-103 *)
SupportedOnly(files) ==
  LET keep(file) == isFileTypeSupported(file.ext, file.content_type)
  IN SelectSeq(files, keep)

(* lines 113-120: no cached entry, or the remote modified_at strictly later *)
NeedsDownload(canvasFile, cachedFile) ==
  \/ cachedFile = NoEntry
  \/ canvasFile.modified_at > cachedFile.modifiedAt

(* lines 109-129: the forEach over supportedCanvasFiles.  Lines 116 and 123
   assign hasNewOrUpdatedFiles, a name no scope declares: evaluated as
   strict-mode code (every ES module) the assignment raises ReferenceError
   right after the push, which ends the loop and is caught at line 183;
   evaluated as sloppy-mode code it creates a global and the loop goes on. *)
RECURSIVE Classify(_, _, _, _, _)
Classify(files, cachedList, strict, dl, use) ==
  IF files = <<>> THEN [toDownload |-> dl, toUse |-> use, threw |-> FALSE]
  ELSE LET canvasFile == Head(files)
           cachedFile == MapGet(cachedList, canvasFile.id)
       IN IF NeedsDownload(canvasFile, cachedFile)
            THEN IF strict
                   THEN [toDownload |-> Append(dl, canvasFile), toUse |-> use, threw |-> TRUE]
                   ELSE Classify(Tail(files), cachedList, strict, Append(dl, canvasFile), use)
            ELSE Classify(Tail(files), cachedList, strict, dl, Append(use, cachedFile))

(* A variant that stamps the entry with the file's modified_at at the time of
   the write instead of the one the listing carried *)
NewCachedFileStampedAtWrite(file, base64Data) ==
  [canvasId |-> file.id, modifiedAt |-> remote[file.id].modified_at, data |-> base64Data]

(* lines 159-169: the entry written for a downloaded file *)
NewCachedFile(file, base64Data) ==
  [canvasId |-> file.id, modifiedAt |-> file.modified_at, data |-> base64Data]

(* lines 180-182 and 203: cachedFilesMap after filesToUse was merged into it *)
MergedIds(cachedList, use) ==
  {f.canvasId : f \in Range(cachedList)} \cup {f.canvasId : f \in Range(use)}

Batch(p) ==
  SubSeq(filesToDownload[p], batchStart[p] + 1,
         Min(batchStart[p] + BATCH_SIZE, Len(filesToDownload[p])))

Pending == -1
Failed == 0

(* lines 60-70: the synchronous head of the pass, up to the first await *)
StartPass(p) ==
  /\ pc[p] = "idle"
  /\ snap' = [snap EXCEPT ![p] = cache]
  /\ supportedFiles' = [supportedFiles EXCEPT ![p] = <<>>]
  /\ filesToDownload' = [filesToDownload EXCEPT ![p] = <<>>]
  /\ filesToUse' = [filesToUse EXCEPT ![p] = <<>>]
  /\ batchStart' = [batchStart EXCEPT ![p] = 0]
  /\ results' = [results EXCEPT ![p] = <<>>]
  /\ pc' = [pc EXCEPT ![p] = IF canvasToken THEN "listing" ELSE "extract"]
  /\ isExtractingFiles' = TRUE
  /\ caughtError' = [caughtError EXCEPT ![p] = FALSE]
  /\ UNCHANGED <<canvasToken, strictMode, remote, cache, ctxFiles, failedIds>>

(* lines 76-129: the listings arrive (each may fail and count as empty), the
   filters run and the files are classified *)
Reconcile(p) ==
  /\ pc[p] = "listing"
  /\ \E rootOk \in BOOLEAN, foldersOk \in BOOLEAN :
       LET rootFiles == IF rootOk THEN RemoteListing ELSE <<>>
           allFolderFiles == IF foldersOk THEN RemoteListing ELSE <<>>
           supported == SupportedOnly(DedupFilter(rootFiles \o allFolderFiles, {}))
           r == Classify(supported, snap[p], strictMode, <<>>, <<>>)
       IN /\ supportedFiles' = [supportedFiles EXCEPT ![p] = supported]
          /\ filesToDownload' = [filesToDownload EXCEPT ![p] = r.toDownload]
          /\ filesToUse' = [filesToUse EXCEPT ![p] = r.toUse]
          /\ batchStart' = [batchStart EXCEPT ![p] = 0]
          /\ results' = [results EXCEPT ![p] =
               IF r.threw \/ r.toDownload = <<>> THEN <<>>
               ELSE [k \in 1..Min(BATCH_SIZE, Len(r.toDownload)) |-> Pending]]
          /\ pc' = [pc EXCEPT ![p] =
               IF r.threw THEN "caught"
               ELSE IF r.toDownload = <<>> THEN "extract" ELSE "downloading"]
  /\ failedIds' = [failedIds EXCEPT ![p] = {}]
  /\ UNCHANGED <<canvasToken, strictMode, remote, cache, snap, ctxFiles, isExtractingFiles, caughtError>>

(* lines 183-186: the catch; cachedFilesMap keeps the snapshot *)
CatchError(p) ==
  /\ pc[p] = "caught"
  /\ filesToUse' = [filesToUse EXCEPT ![p] = <<>>]
  /\ pc' = [pc EXCEPT ![p] = "extract"]
  /\ caughtError' = [caughtError EXCEPT ![p] = TRUE]
  /\ UNCHANGED <<canvasToken, strictMode, remote, cache, snap, supportedFiles,
                 filesToDownload, batchStart, results, ctxFiles, isExtractingFiles,
                 failedIds>>

(* downloadCanvasFileAsBase64 of one file of the batch settles: null on a
   failure, else the bytes the file has on Canvas at that moment *)
DownloadSettle(p, k) ==
  /\ pc[p] = "downloading"
  /\ k \in 1..Len(results[p])
  /\ results[p][k] = Pending
  /\ \E ok \in BOOLEAN :
       results' = [results EXCEPT ![p][k] =
         IF ok THEN remote[Batch(p)[k].id].modified_at ELSE Failed]
  /\ UNCHANGED <<canvasToken, strictMode, remote, cache, pc, snap, supportedFiles,
                 filesToDownload, filesToUse, batchStart, ctxFiles, isExtractingFiles,
                 failedIds, caughtError>>

(* A variant of the forEach that gives the batch up at the first download
   that came back null *)
RECURSIVE WriteBatchStopsAtFailure(_, _, _, _)
WriteBatchStopsAtFailure(files, batch, res, k) ==
  IF k > Len(batch) \/ res[k] = Failed THEN files
  ELSE WriteBatchStopsAtFailure(cacheCanvasFile(files, NewCachedFile(batch[k], res[k])),
                                batch, res, k + 1)

(* lines 156-173: the entries one settled batch writes, in order *)
RECURSIVE WriteBatch(_, _, _, _)
WriteBatch(files, batch, res, k) ==
  IF k > Len(batch) THEN files
  ELSE IF res[k] # Failed
         THEN WriteBatch(cacheCanvasFile(files, NewCachedFile(batch[k], res[k])), batch, res, k + 1)
         ELSE WriteBatch(files, batch, res, k + 1)

RECURSIVE UsedOfBatch(_, _, _)
UsedOfBatch(batch, res, k) ==
  IF k > Len(batch) THEN <<>>
  ELSE IF res[k] # Failed
         THEN <<NewCachedFile(batch[k], res[k])>> \o UsedOfBatch(batch, res, k + 1)
         ELSE UsedOfBatch(batch, res, k + 1)

(* A variant of BatchDone that does not wait for Promise.all: it goes on to
   the next batch while downloads of the present one are still in flight *)
BatchDoneWithoutAwait(p) ==
  /\ pc[p] = "downloading"
  /\ batchStart[p] + BATCH_SIZE < Len(filesToDownload[p])
  /\ batchStart' = [batchStart EXCEPT ![p] = @ + BATCH_SIZE]
  /\ results' = [results EXCEPT ![p] =
        [k \in 1..Min(BATCH_SIZE, Len(filesToDownload[p]) - batchStart'[p]) |-> Pending]]
  /\ UNCHANGED <<canvasToken, strictMode, remote, cache, pc, snap, supportedFiles,
                 filesToDownload, filesToUse, ctxFiles, isExtractingFiles, failedIds, caughtError>>

(* the files of a settled batch whose download came back null *)
FailedOfBatch(batch, res) == {batch[k].id : k \in {j \in 1..Len(batch) : res[j] = Failed}}

(* lines 145-174: Promise.all of the batch resolved; cache the downloads and
   go on to the next batch, or leave the loop *)
BatchDone(p) ==
  /\ pc[p] = "downloading"
  /\ \A k \in 1..Len(results[p]) : results[p][k] # Pending
  /\ LET next == batchStart[p] + BATCH_SIZE
     IN /\ cache' = WriteBatch(cache, Batch(p), results[p], 1)
        /\ filesToUse' = [filesToUse EXCEPT ![p] = @ \o UsedOfBatch(Batch(p), results[p], 1)]
        /\ batchStart' = [batchStart EXCEPT ![p] = next]
        /\ IF next < Len(filesToDownload[p])
             THEN /\ results' = [results EXCEPT ![p] =
                       [k \in 1..Min(BATCH_SIZE, Len(filesToDownload[p]) - next) |-> Pending]]
                  /\ pc' = pc
             ELSE /\ results' = [results EXCEPT ![p] = <<>>]
                  /\ pc' = [pc EXCEPT ![p] = "extract"]
  /\ failedIds' = [failedIds EXCEPT ![p] = @ \cup FailedOfBatch(Batch(p), results[p])]
  /\ UNCHANGED <<canvasToken, strictMode, remote, snap, supportedFiles,
                 filesToDownload, ctxFiles, isExtractingFiles, caughtError>>

(* lines 156-173 when localStorage refuses a write: the downloads before the
   j-th of the batch are cached, cacheCanvasFile of the j-th throws out of
   the forEach and of the loop, to the catch at line 183 *)
BatchWriteFails(p) ==
  /\ pc[p] = "downloading"
  /\ \A k \in 1..Len(results[p]) : results[p][k] # Pending
  /\ \E j \in 1..Len(results[p]) :
       /\ results[p][j] # Failed
       /\ LET written == SubSeq(Batch(p), 1, j - 1)
          IN /\ cache' = WriteBatch(cache, written, results[p], 1)
             /\ filesToUse' = [filesToUse EXCEPT ![p] = @ \o UsedOfBatch(written, results[p], 1)]
             /\ failedIds' = [failedIds EXCEPT ![p] = @ \cup FailedOfBatch(written, results[p])]
  /\ results' = [results EXCEPT ![p] = <<>>]
  /\ pc' = [pc EXCEPT ![p] = "caught"]
  /\ UNCHANGED <<canvasToken, strictMode, remote, snap, supportedFiles, filesToDownload,
                 batchStart, ctxFiles, isExtractingFiles, caughtError>>

(* lines 189-233: the files handed to extraction; the pass ends and its
   locals are gone *)
FinishPass(p) ==
  /\ pc[p] = "extract"
  /\ ctxFiles' = [ctxFiles EXCEPT ![p] =
       IF canvasToken THEN MergedIds(snap[p], filesToUse[p]) ELSE {}]
  /\ pc' = [pc EXCEPT ![p] = "idle"]
  /\ snap' = [snap EXCEPT ![p] = <<>>]
  /\ supportedFiles' = [supportedFiles EXCEPT ![p] = <<>>]
  /\ filesToDownload' = [filesToDownload EXCEPT ![p] = <<>>]
  /\ filesToUse' = [filesToUse EXCEPT ![p] = <<>>]
  /\ batchStart' = [batchStart EXCEPT ![p] = 0]
  /\ isExtractingFiles' = FALSE
  /\ UNCHANGED <<canvasToken, strictMode, remote, cache, results, failedIds, caughtError>>

(* Canvas: a file's content is replaced and its modified_at advances; Canvas
   sees at most MaxVer - 1 replacements *)
RemoteModify(f) ==
  /\ Cardinality({fv \in FileIds \X (2..MaxVer) : remote[fv[1]].modified_at >= fv[2]})
       < MaxVer - 1
  /\ remote' = [remote EXCEPT ![f].modified_at = @ + 1]
  /\ UNCHANGED <<canvasToken, strictMode, cache, pc, snap, supportedFiles,
                 filesToDownload, filesToUse, batchStart, results, ctxFiles,
                 isExtractingFiles, failedIds, caughtError>>

FilesInit ==
  /\ canvasToken \in BOOLEAN
  /\ strictMode \in BOOLEAN
  /\ \E odd \in {1, NumFiles}, prof \in FileProfiles :
       remote = [f \in FileIds |->
                   CanvasFile(f, IF f = odd THEN prof ELSE PlainProfile, 1)]
  /\ cache = <<>>
  /\ pc = [p \in Passes |-> "idle"]
  /\ snap = [p \in Passes |-> <<>>]
  /\ supportedFiles = [p \in Passes |-> <<>>]
  /\ filesToDownload = [p \in Passes |-> <<>>]
  /\ filesToUse = [p \in Passes |-> <<>>]
  /\ batchStart = [p \in Passes |-> 0]
  /\ results = [p \in Passes |-> <<>>]
  /\ ctxFiles = [p \in Passes |-> {}]
  /\ isExtractingFiles = FALSE
  /\ failedIds = [p \in Passes |-> {}]
  /\ caughtError = [p \in Passes |-> FALSE]

(* A course with more files than one batch holds.  Canvas serves the files
   of FlakyIds unreliably, one of the first batch and one of the second *)
FlakyIds == {1, NumListed}

BatchInit ==
  /\ canvasToken \in BOOLEAN
  /\ strictMode \in BOOLEAN
  /\ remote = [f \in 1..NumListed |-> CanvasFile(f, PlainProfile, 1)]
  /\ cache = <<>>
  /\ pc = [p \in Passes |-> "idle"]
  /\ snap = [p \in Passes |-> <<>>]
  /\ supportedFiles = [p \in Passes |-> <<>>]
  /\ filesToDownload = [p \in Passes |-> <<>>]
  /\ filesToUse = [p \in Passes |-> <<>>]
  /\ batchStart = [p \in Passes |-> 0]
  /\ results = [p \in Passes |-> <<>>]
  /\ ctxFiles = [p \in Passes |-> {}]
  /\ isExtractingFiles = FALSE
  /\ failedIds = [p \in Passes |-> {}]
  /\ caughtError = [p \in Passes |-> FALSE]

(* downloadCanvasFileAsBase64 settles; only a file of FlakyIds comes back null *)
DownloadSettleListed(p, k) ==
  /\ DownloadSettle(p, k)
  /\ results'[p][k] = Failed => Batch(p)[k].id \in FlakyIds

(* The variables of the reconciler while another concern is looked at *)
FilesIdle ==
  /\ strictMode = TRUE
  /\ remote = [f \in FileIds |-> CanvasFile(f, PlainProfile, 1)]
  /\ cache = <<>>
  /\ pc = [p \in Passes |-> "idle"]
  /\ snap = [p \in Passes |-> <<>>]
  /\ supportedFiles = [p \in Passes |-> <<>>]
  /\ filesToDownload = [p \in Passes |-> <<>>]
  /\ filesToUse = [p \in Passes |-> <<>>]
  /\ batchStart = [p \in Passes |-> 0]
  /\ results = [p \in Passes |-> <<>>]
  /\ ctxFiles = [p \in Passes |-> {}]
  /\ isExtractingFiles = FALSE
  /\ failedIds = [p \in Passes |-> {}]
  /\ caughtError = [p \in Passes |-> FALSE]

-----------------------------------------------------------------------------
(* Assignments: the Canvas data, the 5-minute cache and the aggregations *)

(* Program constants: minutes of a day (setHours(0, 0, 0, 0)), the cache's
   time to live in minutes, the length of the course page's list, and the
   due_at of an assignment that has none *)
DayLen == 1440
CacheTTL == 5
PageListLen == 5
NoDue == -1000000

Name_Exam == <<"E", "x", "a", "m">>
Kw_exam == <<"e", "x", "a", "m">>
Kw_final == <<"f", "i", "n", "a", "l">>
Kw_midterm == <<"m", "i", "d", "t", "e", "r", "m">>
Kw_test == <<"t", "e", "s", "t">>

(* String.prototype.toLowerCase on the letters the names use *)
LowerChar(c) ==
  CASE c = "E" -> "e" [] c = "H" -> "h" [] c = "W" -> "w" [] c = "X" -> "x"
    [] c = "A" -> "a" [] c = "M" -> "m" [] c = "T" -> "t" [] c = "S" -> "s"
    [] c = "F" -> "f" [] c = "I" -> "i" [] c = "N" -> "n" [] c = "L" -> "l"
    [] c = "D" -> "d" [] c = "R" -> "r" [] OTHER -> c
ToLowerCase(str) == [k \in 1..Len(str) |-> LowerChar(str[k])]

(* String.prototype.includes *)
Includes(str, sub) ==
  \E k \in 0..(Len(str) - Len(sub)) : SubSeq(str, k + 1, k + Len(sub)) = sub

(* the start of the day of t: new Date(t).setHours(0, 0, 0, 0) *)
DayStart(t) == (t \div DayLen) * DayLen

(* fetchCourseAssignments: the course's assignments as Canvas holds them *)
AssignmentsOf(c) ==
  LET mine(a) == a.course_id = c IN SelectSeq(canvasAssignments, mine)

(* isAssignmentSubmitted: a submission object whose workflow_state is
   submitted or graded *)
isAssignmentSubmitted(a) ==
  /\ "submission" \in DOMAIN a
  /\ a.submission # "absent"
  /\ a.submission \in {"submitted", "graded"}

(* Array.prototype.sort by due_at ascending (stable) *)
RECURSIVE InsertByDue(_, _)
InsertByDue(sorted, a) ==
  IF sorted = <<>> THEN <<a>>
  ELSE IF a.due_at < Head(sorted).due_at THEN <<a>> \o sorted
       ELSE <<Head(sorted)>> \o InsertByDue(Tail(sorted), a)

RECURSIVE SortByDue(_)
SortByDue(list) ==
  IF list = <<>> THEN <<>>
  ELSE InsertByDue(SortByDue(SubSeq(list, 1, Len(list) - 1)), list[Len(list)])

NoCache == [assignments |-> <<>>, cachedAt |-> -1]

(* A variant of getCachedAssignments without the age check *)
getCachedAssignmentsNeverExpires(c, t) == assignCache[c]

(* getCachedAssignments: the stored entry unless it is older than 5 minutes *)
getCachedAssignments(c, t) ==
  IF assignCache[c] = NoCache THEN NoCache
  ELSE IF t - assignCache[c].cachedAt > CacheTTL THEN NoCache
       ELSE assignCache[c]

(* saveCachedAssignments: id, name, due_at and course_id of each are kept *)
CachedAssignment(a, c) ==
  [id |-> a.id, name |-> a.name, due_at |-> a.due_at, course_id |-> c]

saveCachedAssignments(c, assignments, t) ==
  [assignments |-> [k \in 1..Len(assignments) |-> CachedAssignment(assignments[k], c)],
   cachedAt |-> t]

(* ClassCard lines 104-117 *)
CardUpcoming(assignments, t) ==
  LET keep(a) ==
        /\ a.due_at # NoDue
        /\ ~isAssignmentSubmitted(a)
        /\ DayStart(a.due_at) >= DayStart(t)
  IN SortByDue(SelectSeq(assignments, keep))

isExam(name) ==
  LET assignmentName == ToLowerCase(name)
  IN \/ Includes(assignmentName, Kw_exam)
     \/ Includes(assignmentName, Kw_final)
     \/ Includes(assignmentName, Kw_midterm)
     \/ Includes(assignmentName, Kw_test)

(* DaysUntilExam lines 110-131 *)
UpcomingExams(assignments, t) ==
  LET keep(a) ==
        /\ a.due_at # NoDue
        /\ ~isAssignmentSubmitted(a)
        /\ isExam(a.name)
        /\ DayStart(a.due_at) >= DayStart(t)
  IN SortByDue(SelectSeq(assignments, keep))

(* course page lines 1100-1116 *)
PageUpcoming(assignments, t) ==
  LET keep(a) ==
        /\ a.due_at # NoDue
        /\ ~(a.due_at <= t)
        /\ ~isAssignmentSubmitted(a)
      sorted == SortByDue(SelectSeq(assignments, keep))
  IN SubSeq(sorted, 1, Min(PageListLen, Len(sorted)))

Ids(list) == [k \in 1..Len(list) |-> list[k].id]

(* what an aggregation computed: the component, its course (0: all), the
   time, the upcoming list, and where the assignments came from *)
Agg(view, c, list, src) ==
  [view |-> view, course |-> c, at |-> now, ids |-> Ids(list), source |-> src]
NoAgg == [view |-> "none", course |-> 0, at |-> 0, ids |-> <<>>, source |-> "none"]

(* A variant of the days-until-exam gathering in which the failure of one
   course's fetch rejects Promise.all and empties the whole aggregation *)
GatherAllOrNothing(cs, failing, t) ==
  IF \E k \in 1..Len(cs) : cs[k] \in failing /\ getCachedAssignments(cs[k], t) = NoCache
    THEN <<>>
    ELSE LET RECURSIVE gather(_)
             gather(rest) ==
               IF rest = <<>> THEN <<>>
               ELSE LET cached == getCachedAssignments(Head(rest), t)
                    IN (IF cached # NoCache THEN cached.assignments
                        ELSE AssignmentsOf(Head(rest))) \o gather(Tail(rest))
         IN gather(cs)

(* ClassCard fetchNextAssignment: the cached assignments if there are any,
   else a fetch that is cached; a failed fetch leaves no next assignment *)
ClassCardLoad(c) ==
  /\ canvasToken
  /\ LET cached == getCachedAssignments(c, now)
     IN IF cached # NoCache
          THEN /\ lastAgg' = Agg("ClassCard", c, CardUpcoming(cached.assignments, now), "cache")
               /\ UNCHANGED assignCache
          ELSE \E ok \in BOOLEAN :
                 IF ok
                   THEN /\ assignCache' = [assignCache EXCEPT ![c] =
                               saveCachedAssignments(c, AssignmentsOf(c), now)]
                        /\ lastAgg' = Agg("ClassCard", c, CardUpcoming(AssignmentsOf(c), now), "fetch")
                   ELSE /\ lastAgg' = Agg("ClassCard", c, <<>>, "error")
                        /\ UNCHANGED assignCache
  /\ UNCHANGED <<canvasToken, now, canvasAssignments>>

(* DaysUntilExam fetchExams: per course the cache or a fetch; a course whose
   fetch fails contributes nothing *)
RECURSIVE Gather(_, _, _)
Gather(cs, failing, t) ==
  IF cs = <<>> THEN <<>>
  ELSE LET c == Head(cs)
           cached == getCachedAssignments(c, t)
           mine == IF cached # NoCache THEN cached.assignments
                   ELSE IF c \in failing THEN <<>> ELSE AssignmentsOf(c)
       IN mine \o Gather(Tail(cs), failing, t)

DaysUntilExamLoad ==
  /\ canvasToken
  /\ \E failing \in SUBSET CourseIds :
       LET listed == [k \in 1..NumCourses |-> k]
       IN /\ assignCache' = [c \in CourseIds |->
                 IF getCachedAssignments(c, now) = NoCache /\ c \notin failing
                   THEN saveCachedAssignments(c, AssignmentsOf(c), now)
                   ELSE assignCache[c]]
          /\ lastAgg' = Agg("DaysUntilExam", 0, UpcomingExams(Gather(listed, failing, now), now),
                            IF \E c \in failing : getCachedAssignments(c, now) = NoCache
                              THEN "error"
                              ELSE IF \E c \in CourseIds : getCachedAssignments(c, now) # NoCache
                                     THEN "cache" ELSE "fetch")
  /\ UNCHANGED <<canvasToken, now, canvasAssignments>>

(* course page loadAssignments and its upcomingAssignments; a failed fetch
   keeps the assignments shown before *)
CoursePageLoad(c) ==
  /\ canvasToken
  /\ lastAgg' = Agg("CoursePage", c, PageUpcoming(AssignmentsOf(c), now), "fetch")
  /\ UNCHANGED <<canvasToken, now, canvasAssignments, assignCache>>

(* a minute passes *)
Tick ==
  /\ now < MaxNow
  /\ now' = now + 1
  /\ lastAgg' = NoAgg
  /\ UNCHANGED <<canvasToken, canvasAssignments, assignCache>>

(* What Canvas can hold for an assignment: the due dates are yesterday, 3
   minutes into today, tomorrow, or none *)
DueChoices == {NoDue, 0 - DayLen + 3, 3, DayLen + 3}
SubmissionStates == {"absent", "unsubmitted", "submitted", "graded"}

CanvasAssignment(id, c, name, due, sub) ==
  [id |-> id, course_id |-> c, name |-> name, due_at |-> due, submission |-> sub]

AssignmentShapes ==
  {CanvasAssignment(0, 1, Name_Exam, d, s) : d \in DueChoices, s \in SubmissionStates}

AssignInit ==
  /\ canvasToken = TRUE
  /\ now = 0
  /\ \E n \in 0..MaxAssign : \E shapes \in [1..n -> AssignmentShapes] :
       canvasAssignments = [k \in 1..n |-> [shapes[k] EXCEPT !.id = k]]
  /\ assignCache = [c \in CourseIds |-> NoCache]
  /\ lastAgg = NoAgg

(* Every course has one open exam due tomorrow, the first course's last *)
ExamPerCourseInit ==
  /\ canvasToken = TRUE
  /\ now = 0
  /\ canvasAssignments =
       [c \in 1..NumCourses |->
          CanvasAssignment(c, c, Name_Exam, DayLen + 3 + (NumCourses - c), "unsubmitted")]
  /\ assignCache = [c \in CourseIds |-> NoCache]
  /\ lastAgg = NoAgg

AssignIdle ==
  /\ now = 0
  /\ canvasAssignments = <<>>
  /\ assignCache = [c \in CourseIds |-> NoCache]
  /\ lastAgg = NoAgg

-----------------------------------------------------------------------------
(* Auto-refresh timers: the courses provider (mounted by the layout for the
   whole session), the course page and the calendar page each own one
   interval handle, set by their setupAutoRefresh, and listen for
   autoRefreshIntervalChanged while mounted. *)

Consumers == {"provider", "coursePage", "calendarPage"}
Routes == {"home", "course", "calendar", "sync"}

DefaultInterval == 5

(* getAutoRefreshInterval: 5 when nothing is stored or the stored number is
   negative, else the stored number *)
getAutoRefreshInterval(stored) ==
  IF stored = <<>> THEN DefaultInterval
  ELSE IF stored[1] < 0 THEN DefaultInterval ELSE stored[1]

(* saveAutoRefreshInterval: a negative number is stored as 0 *)
saveAutoRefreshInterval(intervalMinutes) ==
  <<IF intervalMinutes < 0 THEN 0 ELSE intervalMinutes>>

NoTimer == [active |-> FALSE, period |-> 0, elapsed |-> 0]
(* A variant in which clearing a handle has no effect *)
clearIntervalKeepsTimer(handle) == handle
clearInterval(handle) == NoTimer
setInterval(intervalMinutes) ==
  [active |-> TRUE, period |-> intervalMinutes, elapsed |-> 0]

(* the layout keeps the provider mounted; a page is mounted while the router
   shows its route *)
Mounted(c) ==
  \/ c = "provider"
  \/ c = "coursePage" /\ route = "course"
  \/ c = "calendarPage" /\ route = "calendar"

(* the early return of each setupAutoRefresh after it cleared the handle *)
ProviderReady(token) == token
CoursePageReady(token) == token          \* courseId is set on the course route
CalendarReady(token, len) == token /\ len # 0

Ready(c, token, len) ==
  CASE c = "provider"     -> ProviderReady(token)
    [] c = "coursePage"   -> CoursePageReady(token)
    [] c = "calendarPage" -> CalendarReady(token, len)

setupAutoRefreshKeepsHandle(c, handle, token, stored, len) ==
  IF handle.active THEN handle
  ELSE IF ~Ready(c, token, len) \/ getAutoRefreshInterval(stored) <= 0
         THEN NoTimer
         ELSE setInterval(getAutoRefreshInterval(stored))

setupAutoRefreshZeroTicks(c, handle, token, stored, len) ==
  IF ~Ready(c, token, len) \/ getAutoRefreshInterval(stored) < 0
    THEN NoTimer
    ELSE setInterval(getAutoRefreshInterval(stored))

(* setupAutoRefresh: clear the handle; return without one when there is no
   token (calendar: or no course) or the interval is not positive; else set
   a repeating timer of the stored interval *)
setupAutoRefresh(c, handle, token, stored, len) ==
  LET cleared == clearInterval(handle)
  IN IF ~Ready(c, token, len) THEN cleared
     ELSE IF getAutoRefreshInterval(stored) <= 0 THEN cleared
     ELSE setInterval(getAutoRefreshInterval(stored))

(* A variant of the count below for a setupAutoRefresh that sets its timer
   without clearing the one the handle holds *)
liveAfterSetupWithoutClear(c, live, handle, token, stored, len) ==
  live + (IF setupAutoRefresh(c, handle, token, stored, len).active THEN 1 ELSE 0)

(* the consumer's intervals the browser runs after setupAutoRefresh: the one
   of the handle is cleared, the one that is set is added *)
liveAfterSetup(c, live, handle, token, stored, len) ==
  live - (IF handle.active THEN 1 ELSE 0)
       + (IF setupAutoRefresh(c, handle, token, stored, len).active THEN 1 ELSE 0)

(* the cleanup of the effect: the interval of the handle is cleared *)
liveAfterCleanup(live, handle) ==
  live - (IF handle.active /\ ~clearInterval(handle).active THEN 1 ELSE 0)

(* refreshCourses of the provider sets a new courses array: the listing, or
   [] when the fetch fails.  The calendar page's effect depends on it and
   runs setupAutoRefresh again. *)
RefreshCoursesLength(len) ==
  /\ coursesLength' = len
  /\ timer' = [c \in Consumers |->
                 IF c = "calendarPage" /\ Mounted(c)
                   THEN setupAutoRefresh(c, timer[c], canvasToken, storedInterval, len)
                   ELSE timer[c]]
  /\ liveTimers' = [c \in Consumers |->
                      IF c = "calendarPage" /\ Mounted(c)
                        THEN liveAfterSetup(c, liveTimers[c], timer[c], canvasToken, storedInterval, len)
                        ELSE liveTimers[c]]

(* The router shows another page: the cleanup of the page left clears its
   handle and removes its listener; the effect of the page entered runs
   setupAutoRefresh and adds its listener. *)
Navigate(r) ==
  /\ r # route
  /\ route' = r
  /\ timer' = [c \in Consumers |->
                 CASE c = "provider" -> timer[c]
                   [] c = "coursePage" ->
                        IF r = "course"
                          THEN setupAutoRefresh(c, NoTimer, canvasToken, storedInterval, coursesLength)
                          ELSE clearInterval(timer[c])
                   [] c = "calendarPage" ->
                        IF r = "calendar"
                          THEN setupAutoRefresh(c, NoTimer, canvasToken, storedInterval, coursesLength)
                          ELSE clearInterval(timer[c])]
  /\ liveTimers' = [c \in Consumers |->
                      IF c = "provider" THEN liveTimers[c]
                      ELSE IF (c = "coursePage" /\ r = "course") \/ (c = "calendarPage" /\ r = "calendar")
                        THEN liveAfterSetup(c, liveTimers[c], NoTimer, canvasToken, storedInterval, coursesLength)
                        ELSE liveAfterCleanup(liveTimers[c], timer[c])]
  /\ listeners' = [c \in Consumers |->
                     IF c = "provider" THEN listeners[c]
                     ELSE IF (c = "coursePage" /\ r = "course") \/ (c = "calendarPage" /\ r = "calendar")
                       THEN listeners[c] + 1
                       ELSE IF Mounted(c) THEN listeners[c] - 1 ELSE listeners[c]]
  /\ lastEvent' = "other"
  /\ UNCHANGED <<canvasToken, storedInterval, coursesLength, prevInterval, sinceChange>>

(* The initial load of the provider (its first effect) *)
InitialLoad ==
  /\ lastEvent = "none"
  /\ \E len \in 0..NumCourses :
       RefreshCoursesLength(IF canvasToken THEN len ELSE 0)
  /\ lastEvent' = "other"
  /\ UNCHANGED <<canvasToken, storedInterval, route, prevInterval, sinceChange, listeners>>

(* The settings change: the interval is saved and autoRefreshIntervalChanged
   is dispatched; the handler of every mounted consumer runs setupAutoRefresh *)
ChangeInterval(intervalMinutes) ==
  /\ storedInterval' = saveAutoRefreshInterval(intervalMinutes)
  /\ timer' = [c \in Consumers |->
                 IF listeners[c] > 0
                   THEN setupAutoRefresh(c, timer[c], canvasToken,
                                         saveAutoRefreshInterval(intervalMinutes), coursesLength)
                   ELSE timer[c]]
  /\ liveTimers' = [c \in Consumers |->
                      IF listeners[c] > 0
                        THEN liveAfterSetup(c, liveTimers[c], timer[c], canvasToken,
                                            saveAutoRefreshInterval(intervalMinutes), coursesLength)
                        ELSE liveTimers[c]]
  /\ prevInterval' = getAutoRefreshInterval(storedInterval)
  /\ sinceChange' = 0
  /\ lastEvent' = "intervalChanged"
  /\ UNCHANGED <<canvasToken, route, coursesLength, listeners>>

(* handleSync of the Canvas sync page with a non-blank token: the token is
   tested by fetching the courses; on success it is saved and the provider's
   refreshCourses is awaited; on failure the error is shown *)
HandleSync ==
  /\ route = "sync"
  /\ \E valid \in BOOLEAN :
       IF valid
         THEN /\ canvasToken' = TRUE
              /\ \E len \in 0..NumCourses : RefreshCoursesLength(len)
         ELSE UNCHANGED <<canvasToken, coursesLength, timer, liveTimers>>
  /\ lastEvent' = "other"
  /\ UNCHANGED <<storedInterval, route, prevInterval, sinceChange, listeners>>

(* A timer whose period has elapsed calls its consumer's load *)
TimerFire(c) ==
  /\ timer[c].active
  /\ timer[c].elapsed = timer[c].period
  /\ IF c = "provider"
       THEN \E len \in 0..NumCourses :
              /\ coursesLength' = len
              /\ timer' = [d \in Consumers |->
                   IF d = c THEN [timer[c] EXCEPT !.elapsed = 0]
                   ELSE IF d = "calendarPage" /\ Mounted(d)
                     THEN setupAutoRefresh(d, timer[d], canvasToken, storedInterval, len)
                   ELSE timer[d]]
              /\ liveTimers' = [d \in Consumers |->
                   IF d = "calendarPage" /\ Mounted(d)
                     THEN liveAfterSetup(d, liveTimers[d], timer[d], canvasToken, storedInterval, len)
                     ELSE liveTimers[d]]
       ELSE /\ timer' = [timer EXCEPT ![c].elapsed = 0]
            /\ UNCHANGED <<coursesLength, liveTimers>>
  /\ lastEvent' = "timerFetch"
  /\ UNCHANGED <<canvasToken, storedInterval, route, prevInterval, sinceChange, listeners>>

(* A minute passes; a timer that is due fires first *)
MinutePasses ==
  /\ \A c \in Consumers : timer[c].active => timer[c].elapsed < timer[c].period
  /\ timer' = [c \in Consumers |->
                 IF timer[c].active
                   THEN [timer[c] EXCEPT !.elapsed = timer[c].elapsed + 1]
                   ELSE timer[c]]
  /\ sinceChange' = Min(sinceChange + 1, DefaultInterval)
  /\ lastEvent' = "other"
  /\ UNCHANGED <<canvasToken, storedInterval, route, coursesLength, prevInterval,
                 liveTimers, listeners>>

(* The app starts on the dashboard; the provider's effect has run
   setupAutoRefresh with what localStorage holds *)
TimerInit ==
  /\ canvasToken \in BOOLEAN
  /\ storedInterval \in {<<>>} \cup {<<n>> : n \in 0..MaxInterval}
  /\ route = "home"
  /\ coursesLength = 0
  /\ timer = [c \in Consumers |->
                IF c = "provider"
                  THEN setupAutoRefresh(c, NoTimer, canvasToken, storedInterval, 0)
                  ELSE NoTimer]
  /\ liveTimers = [c \in Consumers |->
                     IF c = "provider"
                       THEN liveAfterSetup(c, 0, NoTimer, canvasToken, storedInterval, 0)
                       ELSE 0]
  /\ listeners = [c \in Consumers |-> IF c = "provider" THEN 1 ELSE 0]
  /\ lastEvent = "none"
  /\ prevInterval = getAutoRefreshInterval(storedInterval)
  /\ sinceChange = 0

TimerIdle ==
  /\ storedInterval = <<>>
  /\ route = "home"
  /\ coursesLength = 0
  /\ timer = [c \in Consumers |-> NoTimer]
  /\ liveTimers = [c \in Consumers |-> 0]
  /\ listeners = [c \in Consumers |-> 0]
  /\ lastEvent = "none"
  /\ prevInterval = DefaultInterval
  /\ sinceChange = 0

-----------------------------------------------------------------------------
(* The folder access prober of the course page: loadFiles probes the
   folders that may hold files, toggleFolder expands and collapses them. *)

FolderIds == 1..NumFolders

(* what a request to /folders/<id>/files can come to: an HTTP status, or no
   response at all *)
NetworkFailure == 0
Responses == {200, 403, 404, 500, NetworkFailure}
(* the call of a server action can itself reject before it answers *)
ActionRejected == -1

CanvasFolder(hidden, name, files_count) ==
  [hidden |-> hidden, name |-> name, files_count |-> files_count]
(* the root folder is named "course files" and is not hidden; a folder
   holds no file or MaxFilesCount files *)
FolderShapes ==
  {CanvasFolder(FALSE, "course files", k) : k \in {0, MaxFilesCount}}
    \cup {CanvasFolder(h, "Lectures", k) : h \in BOOLEAN, k \in {0, MaxFilesCount}}

testFolderAccess403AndMissing(response) ==
  IF response = NetworkFailure THEN TRUE ELSE response \notin {403, 404}

(* testFolderAccess: false only for status 403; true when the request throws *)
testFolderAccess(response) ==
  IF response = NetworkFailure THEN TRUE ELSE response # 403

(* fetchFolderFiles: the number of files it returns when the folder holds n
   listable files: [] for 403 and 404, [] for whatever it throws and catches *)
fetchFolderFiles(response, n) ==
  IF response = 200 THEN n ELSE 0

(* the folders the page renders with an expand button *)
Rendered == {f \in folders : ~canvasFolders[f].hidden
                             /\ canvasFolders[f].name # "course files"}

(* the folders loadFiles probes *)
foldersToTest(foldersData) ==
  {f \in foldersData : /\ ~canvasFolders[f].hidden
                       /\ canvasFolders[f].name # "course files"
                       /\ canvasFolders[f].files_count > 0}

NoToggle == [folder |-> 0, fetched |-> FALSE, response |-> 200, returned |-> 0]

(* loadFiles (on mount): a failed folder listing counts as no folders; every
   probe settles, fulfilled with testFolderAccess's answer or rejected; the
   restricted set becomes the folders whose probe fulfilled with false *)
LoadFiles ==
  /\ canvasToken
  /\ pagePhase = "mounted"
  /\ \E foldersOk \in BOOLEAN :
       LET foldersData == IF foldersOk THEN FolderIds ELSE {}
           tested == foldersToTest(foldersData)
       IN \E outcome \in [tested -> Responses \cup {ActionRejected}] :
            /\ folders' = foldersData
            /\ probes' = outcome
            /\ restrictedFolders' =
                 {f \in tested : /\ outcome[f] # ActionRejected
                                 /\ ~testFolderAccess(outcome[f])}
  /\ pagePhase' = "loaded"
  /\ UNCHANGED <<canvasToken, canvasFolders, expandedFolders, folderFiles, lastToggle>>

(* toggleFolder of a rendered folder; lastToggle keeps what an expansion
   that listed the folder was answered *)
ToggleFolder(folderId) ==
  /\ folderId \in Rendered
  /\ folderId \notin restrictedFolders          \* the button is disabled, and line 985
  /\ IF folderId \in expandedFolders
       THEN /\ expandedFolders' = expandedFolders \ {folderId}
            /\ lastToggle' = NoToggle
            /\ UNCHANGED <<folderFiles, restrictedFolders>>
       ELSE /\ canvasToken
            /\ IF folderFiles[folderId] = <<>>
                 THEN \E response \in Responses \cup {ActionRejected},
                         n \in {0, canvasFolders[folderId].files_count} :
                        IF response = ActionRejected
                          THEN /\ folderFiles' = [folderFiles EXCEPT ![folderId] = <<0>>]
                               /\ lastToggle' = NoToggle
                               /\ UNCHANGED restrictedFolders
                          ELSE LET returned == fetchFolderFiles(response, n)
                               IN /\ folderFiles' = [folderFiles EXCEPT ![folderId] = <<returned>>]
                                  /\ restrictedFolders' =
                                       IF returned = 0 /\ canvasFolders[folderId].files_count > 0
                                         THEN restrictedFolders \cup {folderId}
                                         ELSE restrictedFolders
                                  /\ lastToggle' = [folder |-> folderId, fetched |-> TRUE,
                                                    response |-> response, returned |-> returned]
                 ELSE /\ lastToggle' = NoToggle
                      /\ UNCHANGED <<folderFiles, restrictedFolders>>
            /\ expandedFolders' = expandedFolders \cup {folderId}
  /\ pagePhase' = "toggled"
  /\ UNCHANGED <<canvasToken, canvasFolders, folders, probes>>

(* The course page, just mounted, of a course with any folders *)
FolderInit ==
  /\ canvasToken = TRUE
  /\ canvasFolders \in [FolderIds -> FolderShapes]
  /\ pagePhase = "mounted"
  /\ folders = {}
  /\ restrictedFolders = {}
  /\ expandedFolders = {}
  /\ folderFiles = [f \in FolderIds |-> <<>>]
  /\ probes = [f \in {} |-> 200]
  /\ lastToggle = NoToggle

FolderIdle ==
  /\ canvasFolders = [f \in FolderIds |-> CanvasFolder(FALSE, "Lectures", 0)]
  /\ pagePhase = "mounted"
  /\ folders = {}
  /\ restrictedFolders = {}
  /\ expandedFolders = {}
  /\ folderFiles = [f \in FolderIds |-> <<>>]
  /\ probes = [f \in {} |-> 200]
  /\ lastToggle = NoToggle

-----------------------------------------------------------------------------
(* Hidden courses and the calendar page's course selection.  The user is
   enrolled in the courses CourseIds. *)

(* fetchCalendarEvents: the events of the courses asked for *)
fetchCalendarEvents(codes) == codes \cap canvasEvents

(* hideCourse of the store: append the id unless it is in the list *)
hideCourse(hidden, canvasId) ==
  IF canvasId \in Range(hidden) THEN hidden ELSE Append(hidden, canvasId)

showCourseClearsList(hidden, canvasId) == <<>>

(* showCourse of the store: drop the id from the list *)
showCourse(hidden, canvasId) ==
  LET keep(id) == id # canvasId IN SelectSeq(hidden, keep)

(* applyNicknamesToCourses: the listed courses that are not hidden *)
applyNicknamesToCourses(listing, hidden) ==
  {id \in listing : id \notin Range(hidden)}

(* the effect that initialises selectedCourses: the saved selection, or all
   the provider's courses *)
InitialSelectionAllCourses(saved, cs) == <<cs>>

InitialSelection(saved, cs) == IF saved # <<>> THEN saved ELSE <<cs>>

(* loadCalendarEvents: the courses whose context codes it asks for; none
   when there is no token, no course or nothing selected *)
coursesToFetch(token, cs, selected) ==
  IF ~token \/ cs = {} THEN {}
  ELSE IF selected = <<>> THEN cs ELSE selected[1]

(* filteredEvents: the fetched events of the selected courses *)
filteredEvents(evts, selected) ==
  IF selected = <<>> THEN evts ELSE {id \in evts : id \in selected[1]}

(* the calendar page's effects after courses or selectedCourses changed,
   when it is mounted: the selection is initialised again from the store and
   the events are loaded again (a failed fetch leaves no events) *)
CalendarReload(cs, saved) ==
  IF calendarOpen
    THEN /\ selectedCourses' = InitialSelection(saved, cs)
         /\ contextCodes' = coursesToFetch(canvasToken, cs, InitialSelection(saved, cs))
         /\ \E ok \in BOOLEAN :
              events' = IF ok THEN fetchCalendarEvents(
                                      coursesToFetch(canvasToken, cs, InitialSelection(saved, cs)))
                        ELSE {}
    ELSE UNCHANGED <<selectedCourses, events, contextCodes>>

(* refreshCourses of the provider: the Canvas listing without the hidden
   courses, or [] when the fetch fails *)
refreshCourses ==
  /\ canvasToken
  /\ \E ok \in BOOLEAN :
       LET cs == IF ok THEN applyNicknamesToCourses(CourseIds, hiddenCourses) ELSE {}
       IN /\ courses' = cs
          /\ CalendarReload(cs, savedSelection)
  /\ UNCHANGED <<canvasToken, canvasEvents, hiddenCourses, savedSelection, calendarOpen>>

(* handleHideCourse of the course page of a listed course: the provider's
   hideCourse, then the router leaves for the dashboard *)
HideCourse(canvasId) ==
  /\ ~calendarOpen
  /\ canvasId \in courses
  /\ hiddenCourses' = hideCourse(hiddenCourses, canvasId)
  /\ courses' = courses \ {canvasId}
  /\ UNCHANGED <<canvasToken, canvasEvents, savedSelection, calendarOpen,
                 selectedCourses, events, contextCodes>>

(* handleRestoreCourse of the sync page: showCourse, then refreshCourses *)
RestoreCourse(canvasId) ==
  /\ ~calendarOpen
  /\ canvasToken
  /\ canvasId \in Range(hiddenCourses)
  /\ hiddenCourses' = showCourse(hiddenCourses, canvasId)
  /\ \E ok \in BOOLEAN :
       courses' = IF ok
                    THEN applyNicknamesToCourses(CourseIds, showCourse(hiddenCourses, canvasId))
                    ELSE {}
  /\ UNCHANGED <<canvasToken, canvasEvents, savedSelection, calendarOpen,
                 selectedCourses, events, contextCodes>>

(* The calendar page mounts: its effects initialise the selection and load
   the events *)
OpenCalendar ==
  /\ ~calendarOpen
  /\ calendarOpen' = TRUE
  /\ selectedCourses' = InitialSelection(savedSelection, courses)
  /\ contextCodes' = coursesToFetch(canvasToken, courses,
                                    InitialSelection(savedSelection, courses))
  /\ \E ok \in BOOLEAN :
       events' = IF ok THEN fetchCalendarEvents(
                               coursesToFetch(canvasToken, courses,
                                              InitialSelection(savedSelection, courses)))
                 ELSE {}
  /\ UNCHANGED <<canvasToken, canvasEvents, hiddenCourses, savedSelection, courses>>

(* The calendar page unmounts *)
CloseCalendar ==
  /\ calendarOpen
  /\ calendarOpen' = FALSE
  /\ selectedCourses' = <<>>
  /\ events' = {}
  /\ contextCodes' = {}
  /\ UNCHANGED <<canvasToken, canvasEvents, hiddenCourses, savedSelection, courses>>

(* toggleCourseSelection of a listed course: flip it in the selection, save
   the selection; loadCalendarEvents runs again with it, and until its
   fetch has answered the page filters the events it had *)
ToggleCourseSelection(courseId) ==
  /\ calendarOpen
  /\ courseId \in courses
  /\ LET current == IF selectedCourses = <<>> THEN courses ELSE selectedCourses[1]
         newSelected == IF courseId \in current THEN current \ {courseId}
                        ELSE current \cup {courseId}
     IN /\ selectedCourses' = <<newSelected>>
        /\ savedSelection' = <<newSelected>>
        /\ \E outcome \in {"loaded", "failed", "loading"} :
             IF outcome = "loading"
               THEN UNCHANGED <<events, contextCodes>>
               ELSE /\ contextCodes' = coursesToFetch(canvasToken, courses, <<newSelected>>)
                    /\ events' = IF outcome = "loaded"
                                   THEN fetchCalendarEvents(
                                          coursesToFetch(canvasToken, courses, <<newSelected>>))
                                   ELSE {}
  /\ UNCHANGED <<canvasToken, canvasEvents, hiddenCourses, courses, calendarOpen>>

(* loadCalendarEvents of the open calendar page, as the pending load or the
   refresh timer runs it: the events of the selection, none when the fetch
   fails *)
LoadCalendarEvents ==
  /\ calendarOpen
  /\ contextCodes' = coursesToFetch(canvasToken, courses, selectedCourses)
  /\ \E ok \in BOOLEAN :
       events' = IF ok THEN fetchCalendarEvents(
                               coursesToFetch(canvasToken, courses, selectedCourses))
                 ELSE {}
  /\ UNCHANGED <<canvasToken, canvasEvents, hiddenCourses, savedSelection, courses,
                 calendarOpen, selectedCourses>>

(* the lists hideCourse and showCourse can have left in the store *)
HiddenLists ==
  {h \in UNION {[1..n -> CourseIds] : n \in 0..NumCourses} :
     \A i, j \in 1..Len(h) : i # j => h[i] # h[j]}

(* The app starts with a token stored, the hidden list of earlier sessions
   and no selection saved *)
CalInit ==
  /\ canvasToken = TRUE
  /\ canvasEvents \in SUBSET CourseIds
  /\ hiddenCourses \in HiddenLists
  /\ savedSelection = <<>>
  /\ courses = {}
  /\ calendarOpen = FALSE
  /\ selectedCourses = <<>>
  /\ events = {}
  /\ contextCodes = {}

CalIdle ==
  /\ canvasEvents = {}
  /\ hiddenCourses = <<>>
  /\ savedSelection = <<>>
  /\ courses = {}
  /\ calendarOpen = FALSE
  /\ selectedCourses = <<>>
  /\ events = {}
  /\ contextCodes = {}

-----------------------------------------------------------------------------
(* The persisted store (courseStorage): the setters, and what each does with
   the error localStorage.setItem throws when the quota is exhausted.  The
   store holds the hidden list, the token and, for course 1, the nickname,
   the chat history, the uploaded files, the cached Canvas files, the cached
   extracted text and the cached assignments. *)

UploadIds == 1..MaxUploads
DataCourse == 1

NoError == "none"
QuotaExceededError == "DOMException 22"
StorageQuotaExceeded == "Storage quota exceeded"

(* the three catch blocks the setters have, by what reaches the caller:
   console.error only (saveCourseNickname, saveCanvasToken, hideCourse,
   showCourse, saveCourseChatMessages, deleteCourseFile,
   saveCachedAssignments) *)
catchLogOnly(error) == NoError

(* the quota error replaced by 'Storage quota exceeded', any other error
   passed on (saveCourseFiles, saveCachedCanvasFiles,
   saveCachedExtractedText) *)
catchQuota(error) ==
  IF error = QuotaExceededError THEN StorageQuotaExceeded ELSE error

(* the error passed on unchanged (addCourseFile, cacheCanvasFile) *)
catchRethrow(error) == error

(* localStorage.setItem: the value is stored, or the quota is exhausted, the
   store is as before and the error is thrown *)
setItem(st, key, value, fits) == IF fits THEN [st EXCEPT ![key] = value] ELSE st
setItemError(fits) == IF fits THEN NoError ELSE QuotaExceededError

Op(setter, course, fits, raised) ==
  [setter |-> setter, course |-> course, quota |-> ~fits, raised |-> raised]
NoOp == Op("none", 0, TRUE, NoError)

SaveCourseNickname ==
  \E fits \in BOOLEAN :
    /\ store' = setItem(store, "nickname", TRUE, fits)
    /\ lastOp' = Op("saveCourseNickname", DataCourse, fits,
                    IF fits THEN NoError ELSE catchLogOnly(setItemError(fits)))

SaveCanvasToken ==
  \E fits \in BOOLEAN :
    /\ store' = setItem(store, "token", TRUE, fits)
    /\ lastOp' = Op("saveCanvasToken", 0, fits,
                    IF fits THEN NoError ELSE catchLogOnly(setItemError(fits)))

(* hideCourse writes only when the course is not in the list *)
StoreHideCourse(canvasId) ==
  \E fits \in BOOLEAN :
    /\ canvasId \notin Range(store.hidden)
    /\ store' = setItem(store, "hidden", hideCourse(store.hidden, canvasId), fits)
    /\ lastOp' = Op("hideCourse", canvasId, fits,
                    IF fits THEN NoError ELSE catchLogOnly(setItemError(fits)))

StoreShowCourse(canvasId) ==
  \E fits \in BOOLEAN :
    /\ store' = setItem(store, "hidden", showCourse(store.hidden, canvasId), fits)
    /\ lastOp' = Op("showCourse", canvasId, fits,
                    IF fits THEN NoError ELSE catchLogOnly(setItemError(fits)))

SaveCourseChatMessages ==
  \E fits \in BOOLEAN :
    /\ store' = setItem(store, "chat", TRUE, fits)
    /\ lastOp' = Op("saveCourseChatMessages", DataCourse, fits,
                    IF fits THEN NoError ELSE catchLogOnly(setItemError(fits)))

(* addCourseFile: getCourseFiles, push, saveCourseFiles; both catch blocks
   pass the error on *)
AddCourseFile(fileId) ==
  \E fits \in BOOLEAN :
    /\ fileId \notin store.uploads
    /\ store' = setItem(store, "uploads", store.uploads \cup {fileId}, fits)
    /\ lastOp' = Op("addCourseFile", DataCourse, fits,
                    IF fits THEN NoError
                    ELSE catchRethrow(catchQuota(setItemError(fits))))

(* deleteCourseFile: getCourseFiles, filter, saveCourseFiles; its own catch
   block logs the error *)
DeleteCourseFile(fileId) ==
  \E fits \in BOOLEAN :
    /\ store' = setItem(store, "uploads", store.uploads \ {fileId}, fits)
    /\ lastOp' = Op("deleteCourseFile", DataCourse, fits,
                    IF fits THEN NoError
                    ELSE catchLogOnly(catchQuota(setItemError(fits))))

StoreCacheCanvasFile ==
  \E fits \in BOOLEAN :
    /\ store' = setItem(store, "canvasFiles", TRUE, fits)
    /\ lastOp' = Op("cacheCanvasFile", DataCourse, fits,
                    IF fits THEN NoError
                    ELSE catchRethrow(catchQuota(setItemError(fits))))

StoreSaveCachedAssignments ==
  \E fits \in BOOLEAN :
    /\ store' = setItem(store, "assignments", TRUE, fits)
    /\ lastOp' = Op("saveCachedAssignments", DataCourse, fits,
                    IF fits THEN NoError ELSE catchLogOnly(setItemError(fits)))

SaveCachedExtractedText ==
  \E fits \in BOOLEAN :
    /\ store' = setItem(store, "texts", TRUE, fits)
    /\ lastOp' = Op("saveCachedExtractedText", DataCourse, fits,
                    IF fits THEN NoError ELSE catchQuota(setItemError(fits)))

EmptyStore ==
  [hidden |-> <<>>, token |-> FALSE, nickname |-> FALSE, chat |-> FALSE,
   uploads |-> {}, canvasFiles |-> FALSE, texts |-> FALSE, assignments |-> FALSE]

(* A fresh browser profile *)
StoreInit ==
  /\ canvasToken = FALSE
  /\ store = EmptyStore
  /\ lastOp = NoOp

StoreIdle ==
  /\ store = EmptyStore
  /\ lastOp = NoOp

-----------------------------------------------------------------------------
(* The Canvas gateway: what each call makes of the response it receives *)

GatewayResponses == Responses \cup {401}

(* response.ok *)
ResponseOk(response) == response \in 200..299

(* new Error(`<prefix>: ${response.status}`) *)
HttpError(prefix, status) ==
  [raised |-> TRUE, message |-> prefix, carried |-> {status}]

(* new Error('Invalid Canvas API token. Please check your token ...') *)
InvalidToken ==
  [raised |-> TRUE, message |-> "Invalid Canvas API token", carried |-> {}]

(* fetch itself rejected; the catch rethrows the error *)
FetchRejected ==
  [raised |-> TRUE, message |-> "fetch failed", carried |-> {}]

Returned(value) ==
  [raised |-> FALSE, message |-> "", carried |-> {}, value |-> value]

fetchCanvasCoursesAcceptsAll(response) == Returned("courses")

fetchCanvasCourses(response) ==
  IF response = NetworkFailure THEN FetchRejected
  ELSE IF ~ResponseOk(response)
    THEN IF response = 401 THEN InvalidToken
         ELSE HttpError("Canvas API error", response)
    ELSE Returned("courses")

fetchCourseAssignments(response) ==
  IF response = NetworkFailure THEN FetchRejected
  ELSE IF ~ResponseOk(response)
    THEN HttpError("Failed to fetch assignments", response)
    ELSE Returned("assignments")

fetchCourseFiles(response) ==
  IF response = NetworkFailure THEN FetchRejected
  ELSE IF ~ResponseOk(response)
    THEN HttpError("Failed to fetch files", response)
    ELSE Returned("files")

fetchCourseFolders(response) ==
  IF response = NetworkFailure THEN FetchRejected
  ELSE IF ~ResponseOk(response)
    THEN HttpError("Failed to fetch folders", response)
    ELSE Returned("folders")

(* a failed download is logged and answered with null *)
downloadCanvasFileAsBase64(response) ==
  IF response = NetworkFailure THEN Returned("null")
  ELSE IF ~ResponseOk(response) THEN Returned("null")
  ELSE Returned("data:")

Call(fn, input, output) == [fn |-> fn, input |-> input, output |-> output]

NoCall == Call("none", <<>>, <<>>)

FetchCanvasCourses ==
  /\ call = NoCall
  /\ \E response \in GatewayResponses :
       call' = Call("fetchCanvasCourses", response, fetchCanvasCourses(response))
  /\ UNCHANGED canvasToken

FetchCourseAssignments ==
  /\ call = NoCall
  /\ \E response \in GatewayResponses :
       call' = Call("fetchCourseAssignments", response, fetchCourseAssignments(response))
  /\ UNCHANGED canvasToken

FetchCourseFiles ==
  /\ call = NoCall
  /\ \E response \in GatewayResponses :
       call' = Call("fetchCourseFiles", response, fetchCourseFiles(response))
  /\ UNCHANGED canvasToken

FetchCourseFolders ==
  /\ call = NoCall
  /\ \E response \in GatewayResponses :
       call' = Call("fetchCourseFolders", response, fetchCourseFolders(response))
  /\ UNCHANGED canvasToken

DownloadCanvasFileAsBase64 ==
  /\ call = NoCall
  /\ \E response \in GatewayResponses :
       call' = Call("downloadCanvasFileAsBase64", response,
                    downloadCanvasFileAsBase64(response))
  /\ UNCHANGED canvasToken

(* fetchCalendarEvents in full: the native events of the calendar_events
   response, the events derived from each course's assignments, and the
   removal of duplicates *)

MaxNative == 2

(* the UTC calendar day of an instant: start_at.split('T')[0] *)
UtcDate(instant) == instant \div DayLen

CalendarEvent(id, title, start_at, contextCode, type, all_day_date) ==
  [id |-> id, title |-> title, start_at |-> start_at,
   context_code |-> contextCode, type |-> type, all_day_date |-> all_day_date]

(* lines 468-486: one event per entry of all_dates *)
EventOfDate(assignment, dateInfo, contextCode) ==
  CalendarEvent(assignment.id * 1000 + dateInfo.id, assignment.name,
                IF dateInfo.due_at # NoDue THEN dateInfo.due_at ELSE assignment.due_at,
                contextCode, "assignment", NoDue)

(* lines 487-505: the event of an assignment with a single due date *)
EventOfDueAt(assignment, contextCode) ==
  CalendarEvent(assignment.id, assignment.name, assignment.due_at,
                contextCode, "assignment", NoDue)

(* lines 508-516: drop events without a start and those outside the range *)
InDateRange(event, startDate, endDate) ==
  /\ event.start_at # NoDue
  /\ startDate # NoDue => UtcDate(event.start_at) >= startDate
  /\ endDate # NoDue => UtcDate(event.start_at) <= endDate

RECURSIVE FilterRange(_, _, _)
FilterRange(list, startDate, endDate) ==
  IF list = <<>> THEN <<>>
  ELSE (IF InDateRange(Head(list), startDate, endDate) THEN <<Head(list)>> ELSE <<>>)
         \o FilterRange(Tail(list), startDate, endDate)

(* lines 463-516: the events derived from one course's assignment list *)
RECURSIVE assignmentEvents(_, _, _, _)
assignmentEvents(list, contextCode, startDate, endDate) ==
  IF list = <<>> THEN <<>>
  ELSE LET assignment == Head(list)
           mapped ==
             IF assignment.all_dates # <<>>
               THEN [k \in 1..Len(assignment.all_dates) |->
                       EventOfDate(assignment, assignment.all_dates[k], contextCode)]
               ELSE IF assignment.due_at # NoDue
                 THEN <<EventOfDueAt(assignment, contextCode)>>
                 ELSE <<>>
       IN FilterRange(mapped, startDate, endDate)
            \o assignmentEvents(Tail(list), contextCode, startDate, endDate)

(* lines 437-519: one course's promise; a response that is not ok, or a
   rejected fetch, counts as no events *)
assignmentPromise(response, list, contextCode, startDate, endDate) ==
  IF response = NetworkFailure \/ ~ResponseOk(response) THEN <<>>
  ELSE assignmentEvents(list, contextCode, startDate, endDate)

RECURSIVE assignmentEventsArrays(_, _, _, _, _)
assignmentEventsArrays(codes, responses, lists, startDate, endDate) ==
  IF codes = <<>> THEN <<>>
  ELSE assignmentPromise(responses[Head(codes)], lists[Head(codes)],
                         Head(codes), startDate, endDate)
         \o assignmentEventsArrays(Tail(codes), responses, lists, startDate, endDate)

(* lines 525-530: keep an event only at the first index holding its
   (id, context_code) *)
uniqueEvents(allEvents) ==
  LET firstIndex(k) ==
        CHOOSE j \in 1..k :
          /\ allEvents[j].id = allEvents[k].id
          /\ allEvents[j].context_code = allEvents[k].context_code
          /\ \A i \in 1..(j - 1) :
               ~(allEvents[i].id = allEvents[k].id
                 /\ allEvents[i].context_code = allEvents[k].context_code)
      keep == {k \in 1..Len(allEvents) : firstIndex(k) = k}
      RECURSIVE pick(_)
      pick(k) == IF k > Len(allEvents) THEN <<>>
                 ELSE (IF k \in keep THEN <<allEvents[k]>> ELSE <<>>) \o pick(k + 1)
  IN pick(1)

(* lines 398-535, named after the list it returns *)
fetchCalendarEventsList(eventsResponse, native, codes, responses, lists, startDate, endDate) ==
  IF eventsResponse = NetworkFailure THEN FetchRejected
  ELSE LET fromCalendar == IF ResponseOk(eventsResponse) THEN native ELSE <<>>
       IN Returned(uniqueEvents(
            fromCalendar \o assignmentEventsArrays(codes, responses, lists,
                                                   startDate, endDate)))

(* What Canvas may answer: the homework "HW" of course 1 as a native event
   of type assignment under the assignment's id, and other events *)
NativeShapes ==
  {CalendarEvent(1, "HW", DayLen, 1, "assignment", NoDue),
   CalendarEvent(1000, "Lecture", DayLen, 1, "event", NoDue),
   CalendarEvent(1, "Lecture", DayLen, 2, "event", NoDue)}

NativeLists == UNION {[1..n -> NativeShapes] : n \in 0..MaxNative}

DateInfos ==
  {<<>>, <<[id |-> 0, due_at |-> NoDue]>>,
   <<[id |-> 1, due_at |-> DayLen], [id |-> 1, due_at |-> DayLen]>>}

CalendarAssignmentLists ==
  {<<>>} \cup
  {<<[id |-> 1, name |-> "HW", due_at |-> due, all_dates |-> dates]>> :
     due \in {NoDue, DayLen, 3 * DayLen}, dates \in DateInfos}

(* context codes in the order the page builds them *)
RECURSIVE SeqOfSet(_)
SeqOfSet(set) ==
  IF set = {} THEN <<>>
  ELSE LET least == CHOOSE x \in set : \A y \in set : x <= y
       IN <<least>> \o SeqOfSet(set \ {least})

FetchCalendarEvents ==
  /\ call = NoCall
  /\ \E eventsResponse \in {200, 500, NetworkFailure}, native \in NativeLists,
        codes \in SUBSET CourseIds, response \in {200, 500, NetworkFailure},
        list \in CalendarAssignmentLists,
        startDate \in {NoDue, 1}, endDate \in {NoDue, 2} :
       LET responses == [c \in CourseIds |-> IF c = 1 THEN response ELSE 200]
           lists == [c \in CourseIds |-> IF c = 1 THEN list ELSE <<>>]
           input == [eventsResponse |-> eventsResponse, native |-> native,
                     contextCodes |-> SeqOfSet(codes), responses |-> responses,
                     lists |-> lists, startDate |-> startDate, endDate |-> endDate]
       IN call' = Call("fetchCalendarEvents", input,
                       fetchCalendarEventsList(eventsResponse, native, SeqOfSet(codes),
                                               responses, lists, startDate, endDate))
  /\ UNCHANGED canvasToken

(* The calendar page's grouping of the shown events by date *)

MaxGrouped == 2

TimeZones == {0, -420}

(* getLocalDateString: the calendar day of an instant in the browser's zone,
   timeZone being the minutes local time is ahead of UTC *)
getLocalDateString(instant, timeZone) == (instant + timeZone) \div DayLen

dateKeyStartAtFirst(event, timeZone) ==
  IF event.start_at # NoDue THEN getLocalDateString(event.start_at, timeZone)
  ELSE event.all_day_date

(* lines 306-313: all_day_date when set, else the local day of start_at,
   else none (the event is skipped) *)
dateKey(event, timeZone) ==
  IF event.all_day_date # NoDue THEN event.all_day_date
  ELSE IF event.start_at # NoDue THEN getLocalDateString(event.start_at, timeZone)
  ELSE NoDue

(* lines 322-328: the stable sort of one day's events by start_at *)
RECURSIVE InsertByStart(_, _)
InsertByStart(sorted, event) ==
  IF sorted = <<>> THEN <<event>>
  ELSE IF event.start_at < Head(sorted).start_at THEN <<event>> \o sorted
  ELSE <<Head(sorted)>> \o InsertByStart(Tail(sorted), event)

RECURSIVE SortByStart(_)
SortByStart(list) ==
  IF list = <<>> THEN <<>>
  ELSE InsertByStart(SortByStart(SubSeq(list, 1, Len(list) - 1)), list[Len(list)])

(* lines 301-331: grouped, a record from date keys to the day's events *)
eventsByDate(list, timeZone) ==
  LET keyed(d) == SelectSeq(list, LAMBDA e : dateKey(e, timeZone) = d)
      keys == {dateKey(list[k], timeZone) : k \in 1..Len(list)} \ {NoDue}
  IN [d \in keys |-> SortByStart(keyed(d))]

GroupedShapes ==
  {CalendarEvent(1, "Lecture", start, 1, "event", day) :
     start \in {NoDue, DayLen + 60, 2 * DayLen + 120}, day \in {NoDue, 1, 2}}

GroupedLists == UNION {[1..n -> GroupedShapes] : n \in 0..MaxGrouped}

EventsByDate ==
  /\ call = NoCall
  /\ \E list \in GroupedLists, timeZone \in TimeZones :
       call' = Call("eventsByDate", [list |-> list, timeZone |-> timeZone],
                    eventsByDate(list, timeZone))
  /\ UNCHANGED canvasToken

(* fetchGoogleCalendarEvents: the VEVENTs of the parsed feed become calendar
   events; instants are minutes since the epoch *)

MaxVevents == 2

getHours(instant, timeZone) == ((instant + timeZone) % DayLen) \div 60

getMinutes(instant, timeZone) == (instant + timeZone) % 60

(* lines 59-60 *)
isAllDay(start, end, timeZone) ==
  /\ getHours(start, timeZone) = 0
  /\ getMinutes(start, timeZone) = 0
  /\ \/ end = NoDue
     \/ /\ end - start >= DayLen
        /\ getHours(end, timeZone) = 0
        /\ getMinutes(end, timeZone) = 0

(* lines 52-54: new Date(startDate) is UTC midnight of the day, new
   Date(endDate + 'T23:59:59') the last minute of the local day *)
InFeedRange(start, startDate, endDate, timeZone) ==
  /\ startDate # NoDue => start >= startDate * DayLen
  /\ endDate # NoDue => start <= endDate * DayLen + (DayLen - 1) - timeZone

(* lines 63-115: the one calendar event made of a VEVENT *)
GoogleEvent(vevent, timeZone) ==
  CalendarEvent(vevent.uid, "Untitled Event", vevent.start, "google_calendar",
                "google-calendar",
                IF isAllDay(vevent.start, vevent.end, timeZone)
                  THEN UtcDate(vevent.start) ELSE NoDue)

RECURSIVE GoogleEvents(_, _, _, _)
GoogleEvents(vevents, startDate, endDate, timeZone) ==
  IF vevents = <<>> THEN <<>>
  ELSE LET event == Head(vevents)
       IN (IF event.type = "VEVENT" /\ event.start # NoDue
              /\ InFeedRange(event.start, startDate, endDate, timeZone)
             THEN <<GoogleEvent(event, timeZone)>> ELSE <<>>)
            \o GoogleEvents(Tail(vevents), startDate, endDate, timeZone)

fetchGoogleCalendarEvents(response, vevents, startDate, endDate, timeZone) ==
  IF response = NetworkFailure THEN FetchRejected
  ELSE IF ~ResponseOk(response)
    THEN HttpError("Failed to fetch Google Calendar feed", response)
    ELSE Returned(SortByStart(GoogleEvents(vevents, startDate, endDate, timeZone)))

(* The feeds considered: events that start at local midnight of day 1 or at
   09:00, lasting an hour, one day or three days, or without an end; an
   event without a start; a component that is no event *)
Vevents(timeZone) ==
  {[type |-> "VEVENT", uid |-> 7, start |-> start, end |-> end] :
     start \in {DayLen - timeZone, DayLen - timeZone + 540},
     end \in {NoDue, DayLen - timeZone + 600, 2 * DayLen - timeZone,
              4 * DayLen - timeZone}}
  \cup {[type |-> "VEVENT", uid |-> 7, start |-> NoDue, end |-> NoDue],
        [type |-> "VTIMEZONE", uid |-> 7, start |-> NoDue, end |-> NoDue]}

FetchGoogleCalendarEvents ==
  /\ call = NoCall
  /\ \E timeZone \in TimeZones, response \in {200, 404, NetworkFailure},
        startDate \in {NoDue, 1}, endDate \in {NoDue, 1} :
       \E vevents \in UNION {[1..n -> Vevents(timeZone)] : n \in 0..MaxVevents} :
         call' = Call("fetchGoogleCalendarEvents",
                      [response |-> response, vevents |-> vevents,
                       startDate |-> startDate, endDate |-> endDate,
                       timeZone |-> timeZone],
                      fetchGoogleCalendarEvents(response, vevents, startDate,
                                                endDate, timeZone))
  /\ UNCHANGED canvasToken

(* No call made yet *)
(* cacheCanvasFile called for the course again and again; saveCachedCanvasFiles
   throws when localStorage refuses the list, which is then left as it was *)
CachedFileShapes ==
  {[canvasId |-> id, modifiedAt |-> m, data |-> b] : id \in FileIds, m \in 1..MaxVer, b \in {1, MaxVer}}

CacheCanvasFile ==
  \E file \in CachedFileShapes, fits \in BOOLEAN :
    /\ cache' = IF fits THEN cacheCanvasFile(cache, file) ELSE cache
    /\ call' = Call("cacheCanvasFile", file, IF fits THEN NoError ELSE StorageQuotaExceeded)
    /\ UNCHANGED <<canvasToken, strictMode, remote, pc, snap, supportedFiles, filesToDownload,
                   filesToUse, batchStart, results, ctxFiles, isExtractingFiles, failedIds, caughtError>>

CallInit ==
  /\ canvasToken = TRUE
  /\ call = NoCall

CallIdle == call = NoCall

-----------------------------------------------------------------------------
(* The sync page: handleSync validates the typed token, stores it and
   refreshes the courses *)

MaxSyncs == 2

NoToken == ""

Tokens == {"tokenA", "tokenB"}

(* String.prototype.trim on the texts the form can hold *)
Trim(text) == IF text = " " THEN "" ELSE text

(* what Canvas answers a courses request made with a token: 401 unless it
   accepts the token, and otherwise any answer *)
CoursesResponses(token) ==
  IF token \in validTokens THEN GatewayResponses \ {401} ELSE {401}

(* the form field changes *)
EnterToken(text) ==
  /\ syncPc = "idle"
  /\ syncToken' = text
  /\ UNCHANGED <<canvasToken, validTokens, storedToken, syncPc, syncResponse,
                 syncError, isSuccess, refreshCount>>

(* lines 59-69: a blank token is refused; otherwise the validation request
   is sent *)
HandleSyncSubmit ==
  /\ syncPc = "idle"
  /\ refreshCount < MaxSyncs
  /\ IF Trim(syncToken) = ""
       THEN /\ syncError' = "Please enter a Canvas access token"
            /\ UNCHANGED <<syncPc, isSuccess>>
       ELSE /\ syncPc' = "validating"
            /\ isSuccess' = FALSE
            /\ syncError' = NoError
  /\ UNCHANGED <<canvasToken, validTokens, storedToken, syncToken, syncResponse,
                 refreshCount>>

(* lines 71-78 and 86-88: fetchCanvasCourses answers; on success the token is
   saved (localStorage may refuse the write, which saveCanvasToken only
   logs) and refreshCourses is started, on failure the error is shown *)
HandleSyncValidated ==
  /\ syncPc = "validating"
  /\ \E response \in CoursesResponses(syncToken), fits \in BOOLEAN :
       LET result == fetchCanvasCourses(response)
       IN /\ syncResponse' = response
          /\ IF result.raised
               THEN /\ syncError' = result.message
                    /\ syncPc' = "idle"
                    /\ UNCHANGED <<canvasToken, storedToken, refreshCount>>
               ELSE /\ storedToken' = IF fits THEN syncToken ELSE storedToken
                    /\ canvasToken' = ((IF fits THEN syncToken ELSE storedToken) # NoToken)
                    /\ refreshCount' = refreshCount + 1
                    /\ syncPc' = "refreshing"
                    /\ UNCHANGED syncError
  /\ UNCHANGED <<validTokens, syncToken, isSuccess>>

(* lines 78-81: refreshCourses and loadHiddenCourses are through (neither
   throws); the success message is shown *)
HandleSyncRefreshed ==
  /\ syncPc = "refreshing"
  /\ syncPc' = "idle"
  /\ isSuccess' = TRUE
  /\ UNCHANGED <<canvasToken, validTokens, storedToken, syncToken, syncResponse,
                 syncError, refreshCount>>

(* lines 83-85: the success message goes away *)
ClearSuccess ==
  /\ isSuccess
  /\ isSuccess' = FALSE
  /\ UNCHANGED <<canvasToken, validTokens, storedToken, syncToken, syncPc,
                 syncResponse, syncError, refreshCount>>

(* The sync page opens with or without a token stored earlier, which its
   mount effect puts into the form *)
SyncInit ==
  /\ validTokens \in SUBSET Tokens
  /\ storedToken \in {NoToken} \cup Tokens
  /\ canvasToken = (storedToken # NoToken)
  /\ syncToken = storedToken
  /\ syncPc = "idle"
  /\ syncResponse = NetworkFailure
  /\ syncError = NoError
  /\ isSuccess = FALSE
  /\ refreshCount = 0

SyncIdle ==
  /\ validTokens = {}
  /\ storedToken = NoToken
  /\ syncToken = ""
  /\ syncPc = "idle"
  /\ syncResponse = NetworkFailure
  /\ syncError = NoError
  /\ isSuccess = FALSE
  /\ refreshCount = 0

-----------------------------------------------------------------------------
(* The specifications *)

Init == FilesInit /\ AssignIdle /\ TimerIdle /\ FolderIdle /\ CalIdle /\ StoreIdle /\ CallIdle /\ SyncIdle

Next ==
  \/ \E p \in MainPass : StartPass(p) /\ UNCHANGED <<assignVars, timerVars, folderVars, calVars, storeVars, callVars, syncVars>>
  \/ \E p \in MainPass : Reconcile(p) /\ UNCHANGED <<assignVars, timerVars, folderVars, calVars, storeVars, callVars, syncVars>>
  \/ \E p \in MainPass : CatchError(p) /\ UNCHANGED <<assignVars, timerVars, folderVars, calVars, storeVars, callVars, syncVars>>
  \/ \E p \in MainPass, k \in 1..NumFiles : DownloadSettle(p, k) /\ UNCHANGED <<assignVars, timerVars, folderVars, calVars, storeVars, callVars, syncVars>>
  \/ \E p \in MainPass : BatchDone(p) /\ UNCHANGED <<assignVars, timerVars, folderVars, calVars, storeVars, callVars, syncVars>>
  \/ \E p \in MainPass : FinishPass(p) /\ UNCHANGED <<assignVars, timerVars, folderVars, calVars, storeVars, callVars, syncVars>>
  \/ \E f \in FileIds : RemoteModify(f) /\ UNCHANGED <<assignVars, timerVars, folderVars, calVars, storeVars, callVars, syncVars>>

Spec == Init /\ [][Next]_vars

InitAssign == AssignInit /\ FilesIdle /\ TimerIdle /\ FolderIdle /\ CalIdle /\ StoreIdle /\ CallIdle /\ SyncIdle

NextAssign ==
  \/ \E c \in CourseIds : ClassCardLoad(c) /\ UNCHANGED <<fileVars, timerVars, folderVars, calVars, storeVars, callVars, syncVars>>
  \/ DaysUntilExamLoad /\ UNCHANGED <<fileVars, timerVars, folderVars, calVars, storeVars, callVars, syncVars>>
  \/ \E c \in CourseIds : CoursePageLoad(c) /\ UNCHANGED <<fileVars, timerVars, folderVars, calVars, storeVars, callVars, syncVars>>
  \/ Tick /\ UNCHANGED <<fileVars, timerVars, folderVars, calVars, storeVars, callVars, syncVars>>

SpecAssign == InitAssign /\ [][NextAssign]_vars

InitTimer == TimerInit /\ FilesIdle /\ AssignIdle /\ FolderIdle /\ CalIdle /\ StoreIdle /\ CallIdle /\ SyncIdle

NextTimer ==
  \/ InitialLoad /\ UNCHANGED <<fileVars, assignVars, folderVars, calVars, storeVars, callVars, syncVars>>
  \/ \E r \in Routes : Navigate(r) /\ UNCHANGED <<fileVars, assignVars, folderVars, calVars, storeVars, callVars, syncVars>>
  \/ \E n \in -1..MaxInterval : ChangeInterval(n) /\ UNCHANGED <<fileVars, assignVars, folderVars, calVars, storeVars, callVars, syncVars>>
  \/ HandleSync /\ UNCHANGED <<fileVars, assignVars, folderVars, calVars, storeVars, callVars, syncVars>>
  \/ \E c \in Consumers : TimerFire(c) /\ UNCHANGED <<fileVars, assignVars, folderVars, calVars, storeVars, callVars, syncVars>>
  \/ MinutePasses /\ UNCHANGED <<fileVars, assignVars, folderVars, calVars, storeVars, callVars, syncVars>>

SpecTimer == InitTimer /\ [][NextTimer]_vars

InitFolder == FolderInit /\ FilesIdle /\ AssignIdle /\ TimerIdle /\ CalIdle /\ StoreIdle /\ CallIdle /\ SyncIdle

NextFolder ==
  \/ LoadFiles /\ UNCHANGED <<fileVars, assignVars, timerVars, calVars, storeVars, callVars, syncVars>>
  \/ \E f \in FolderIds : ToggleFolder(f) /\ UNCHANGED <<fileVars, assignVars, timerVars, calVars, storeVars, callVars, syncVars>>

SpecFolder == InitFolder /\ [][NextFolder]_vars

InitCal == CalInit /\ FilesIdle /\ AssignIdle /\ TimerIdle /\ FolderIdle /\ StoreIdle /\ CallIdle /\ SyncIdle

NextCal ==
  \/ refreshCourses /\ UNCHANGED <<fileVars, assignVars, timerVars, folderVars, storeVars, callVars, syncVars>>
  \/ \E c \in CourseIds : HideCourse(c) /\ UNCHANGED <<fileVars, assignVars, timerVars, folderVars, storeVars, callVars, syncVars>>
  \/ \E c \in CourseIds : RestoreCourse(c) /\ UNCHANGED <<fileVars, assignVars, timerVars, folderVars, storeVars, callVars, syncVars>>
  \/ OpenCalendar /\ UNCHANGED <<fileVars, assignVars, timerVars, folderVars, storeVars, callVars, syncVars>>
  \/ CloseCalendar /\ UNCHANGED <<fileVars, assignVars, timerVars, folderVars, storeVars, callVars, syncVars>>
  \/ \E c \in CourseIds : ToggleCourseSelection(c) /\ UNCHANGED <<fileVars, assignVars, timerVars, folderVars, storeVars, callVars, syncVars>>
  \/ LoadCalendarEvents /\ UNCHANGED <<fileVars, assignVars, timerVars, folderVars, storeVars, callVars, syncVars>>

SpecCal == InitCal /\ [][NextCal]_vars

InitStore == StoreInit /\ FilesIdle /\ AssignIdle /\ TimerIdle /\ FolderIdle /\ CalIdle /\ CallIdle /\ SyncIdle

NextStore ==
  \/ SaveCourseNickname /\ UNCHANGED <<canvasToken, fileVars, assignVars, timerVars, folderVars, calVars, callVars, syncVars>>
  \/ SaveCanvasToken /\ UNCHANGED <<canvasToken, fileVars, assignVars, timerVars, folderVars, calVars, callVars, syncVars>>
  \/ \E c \in CourseIds : StoreHideCourse(c) /\ UNCHANGED <<canvasToken, fileVars, assignVars, timerVars, folderVars, calVars, callVars, syncVars>>
  \/ \E c \in CourseIds : StoreShowCourse(c) /\ UNCHANGED <<canvasToken, fileVars, assignVars, timerVars, folderVars, calVars, callVars, syncVars>>
  \/ SaveCourseChatMessages /\ UNCHANGED <<canvasToken, fileVars, assignVars, timerVars, folderVars, calVars, callVars, syncVars>>
  \/ \E f \in UploadIds : AddCourseFile(f) /\ UNCHANGED <<canvasToken, fileVars, assignVars, timerVars, folderVars, calVars, callVars, syncVars>>
  \/ \E f \in UploadIds : DeleteCourseFile(f) /\ UNCHANGED <<canvasToken, fileVars, assignVars, timerVars, folderVars, calVars, callVars, syncVars>>
  \/ StoreCacheCanvasFile /\ UNCHANGED <<canvasToken, fileVars, assignVars, timerVars, folderVars, calVars, callVars, syncVars>>
  \/ StoreSaveCachedAssignments /\ UNCHANGED <<canvasToken, fileVars, assignVars, timerVars, folderVars, calVars, callVars, syncVars>>
  \/ SaveCachedExtractedText /\ UNCHANGED <<canvasToken, fileVars, assignVars, timerVars, folderVars, calVars, callVars, syncVars>>

SpecStore == InitStore /\ [][NextStore]_vars

InitCall == CallInit /\ FilesIdle /\ AssignIdle /\ TimerIdle /\ FolderIdle /\ CalIdle /\ StoreIdle /\ SyncIdle

NextCall ==
  \/ FetchCanvasCourses /\ UNCHANGED <<fileVars, assignVars, timerVars, folderVars, calVars, storeVars, syncVars>>
  \/ FetchCourseAssignments /\ UNCHANGED <<fileVars, assignVars, timerVars, folderVars, calVars, storeVars, syncVars>>
  \/ FetchCourseFiles /\ UNCHANGED <<fileVars, assignVars, timerVars, folderVars, calVars, storeVars, syncVars>>
  \/ FetchCourseFolders /\ UNCHANGED <<fileVars, assignVars, timerVars, folderVars, calVars, storeVars, syncVars>>
  \/ DownloadCanvasFileAsBase64 /\ UNCHANGED <<fileVars, assignVars, timerVars, folderVars, calVars, storeVars, syncVars>>
  \/ FetchCalendarEvents /\ UNCHANGED <<fileVars, assignVars, timerVars, folderVars, calVars, storeVars, syncVars>>
  \/ EventsByDate /\ UNCHANGED <<fileVars, assignVars, timerVars, folderVars, calVars, storeVars, syncVars>>
  \/ FetchGoogleCalendarEvents /\ UNCHANGED <<fileVars, assignVars, timerVars, folderVars, calVars, storeVars, syncVars>>

SpecCall == InitCall /\ [][NextCall]_vars

InitSync == SyncInit /\ FilesIdle /\ AssignIdle /\ TimerIdle /\ FolderIdle /\ CalIdle /\ StoreIdle /\ CallIdle

NextSync ==
  \/ \E text \in {"", " "} \cup Tokens : EnterToken(text) /\ UNCHANGED <<fileVars, assignVars, timerVars, folderVars, calVars, storeVars, callVars>>
  \/ HandleSyncSubmit /\ UNCHANGED <<fileVars, assignVars, timerVars, folderVars, calVars, storeVars, callVars>>
  \/ HandleSyncValidated /\ UNCHANGED <<fileVars, assignVars, timerVars, folderVars, calVars, storeVars, callVars>>
  \/ HandleSyncRefreshed /\ UNCHANGED <<fileVars, assignVars, timerVars, folderVars, calVars, storeVars, callVars>>
  \/ ClearSuccess /\ UNCHANGED <<fileVars, assignVars, timerVars, folderVars, calVars, storeVars, callVars>>

SpecSync == InitSync /\ [][NextSync]_vars

InitBatch == BatchInit /\ AssignIdle /\ TimerIdle /\ FolderIdle /\ CalIdle /\ StoreIdle /\ CallIdle /\ SyncIdle

NextBatch ==
  \/ \E p \in MainPass : StartPass(p) /\ UNCHANGED <<assignVars, timerVars, folderVars, calVars, storeVars, callVars, syncVars>>
  \/ \E p \in MainPass : Reconcile(p) /\ UNCHANGED <<assignVars, timerVars, folderVars, calVars, storeVars, callVars, syncVars>>
  \/ \E p \in MainPass : CatchError(p) /\ UNCHANGED <<assignVars, timerVars, folderVars, calVars, storeVars, callVars, syncVars>>
  \/ \E p \in MainPass, k \in 1..BATCH_SIZE : DownloadSettleListed(p, k) /\ UNCHANGED <<assignVars, timerVars, folderVars, calVars, storeVars, callVars, syncVars>>
  \/ \E p \in MainPass : BatchDone(p) /\ UNCHANGED <<assignVars, timerVars, folderVars, calVars, storeVars, callVars, syncVars>>
  \/ \E p \in MainPass : FinishPass(p) /\ UNCHANGED <<assignVars, timerVars, folderVars, calVars, storeVars, callVars, syncVars>>

SpecBatch == InitBatch /\ [][NextBatch]_vars

InitExams == ExamPerCourseInit /\ FilesIdle /\ TimerIdle /\ FolderIdle /\ CalIdle /\ StoreIdle /\ CallIdle /\ SyncIdle

NextExams ==
  \/ \E c \in CourseIds : ClassCardLoad(c) /\ UNCHANGED <<fileVars, timerVars, folderVars, calVars, storeVars, callVars, syncVars>>
  \/ DaysUntilExamLoad /\ UNCHANGED <<fileVars, timerVars, folderVars, calVars, storeVars, callVars, syncVars>>
  \/ Tick /\ UNCHANGED <<fileVars, timerVars, folderVars, calVars, storeVars, callVars, syncVars>>

SpecExams == InitExams /\ [][NextExams]_vars

(* Passes of the same course that overlap: the effect ran again before the
   pass it started earlier had finished *)
NextPasses ==
  \/ \E p \in Passes : StartPass(p) /\ UNCHANGED <<assignVars, timerVars, folderVars, calVars, storeVars, callVars, syncVars>>
  \/ \E p \in Passes : Reconcile(p) /\ UNCHANGED <<assignVars, timerVars, folderVars, calVars, storeVars, callVars, syncVars>>
  \/ \E p \in Passes : CatchError(p) /\ UNCHANGED <<assignVars, timerVars, folderVars, calVars, storeVars, callVars, syncVars>>
  \/ \E p \in Passes, k \in 1..NumFiles : DownloadSettle(p, k) /\ UNCHANGED <<assignVars, timerVars, folderVars, calVars, storeVars, callVars, syncVars>>
  \/ \E p \in Passes : BatchDone(p) /\ UNCHANGED <<assignVars, timerVars, folderVars, calVars, storeVars, callVars, syncVars>>
  \/ \E p \in Passes : FinishPass(p) /\ UNCHANGED <<assignVars, timerVars, folderVars, calVars, storeVars, callVars, syncVars>>
  \/ \E f \in FileIds : RemoteModify(f) /\ UNCHANGED <<assignVars, timerVars, folderVars, calVars, storeVars, callVars, syncVars>>

SpecPasses == Init /\ [][NextPasses]_vars

InitWrites == CallInit /\ FilesIdle /\ AssignIdle /\ TimerIdle /\ FolderIdle /\ CalIdle /\ StoreIdle /\ SyncIdle

NextWrites ==
  CacheCanvasFile /\ UNCHANGED <<assignVars, timerVars, folderVars, calVars, storeVars, syncVars>>

SpecWrites == InitWrites /\ [][NextWrites]_vars

(* The pass on a browser whose localStorage may be full *)
NextQuota ==
  \/ Next
  \/ \E p \in MainPass : BatchWriteFails(p) /\ UNCHANGED <<assignVars, timerVars, folderVars, calVars, storeVars, callVars, syncVars>>

SpecQuota == Init /\ [][NextQuota]_vars



-----------------------------------------------------------------------------
(* Properties of the file cache reconciler, checked under Spec *)

Classified(p) == pc[p] \in {"caught", "downloading", "extract"}
OnDownloadList(p, id) == \E j \in 1..Len(filesToDownload[p]) : filesToDownload[p][j].id = id
SnapEntries(p, id) == {e \in Range(snap[p]) : e.canvasId = id}
IdsOf(files) == [k \in 1..Len(files) |-> files[k].id]

(* C1: in a pass, every supported file of the fetched metadata is on the
   download-needed list if and only if it has no cached entry of its canvasId
   or its remote modified_at is strictly later than the cached modifiedAt. *)
C1_DownloadIffNewOrNewer ==
  \A p \in Passes :
    Classified(p) =>
      \A k \in 1..Len(supportedFiles[p]) :
        LET f == supportedFiles[p][k]
        IN OnDownloadList(p, f.id) <=>
             \/ SnapEntries(p, f.id) = {}
             \/ \E e \in SnapEntries(p, f.id) : f.modified_at > e.modifiedAt

(* C2: from an empty cache a pass puts every listed file on the
   download-needed list, in listing order ([1, 2] for files 1 and 2); and when
   the cache holds every listed file with the modified_at the listing shows,
   the download-needed list is empty. *)
C2_FixedPoint ==
  \A p \in Passes :
    Classified(p) =>
      /\ snap[p] = <<>> => IdsOf(filesToDownload[p]) = IdsOf(supportedFiles[p])
      /\ (\A k \in 1..Len(supportedFiles[p]) :
            \E e \in SnapEntries(p, supportedFiles[p][k].id) :
              e.modifiedAt = supportedFiles[p][k].modified_at)
           => filesToDownload[p] = <<>>

(* The case of C2's first half: two supported files listed over an empty cache *)
C2_TwoFilesEmptyCache ==
  \E p \in Passes :
    /\ Classified(p)
    /\ snap[p] = <<>>
    /\ IdsOf(supportedFiles[p]) = <<1, 2>>

(* C3: every cached entry's modifiedAt is no later than the modification time
   of the bytes it holds, so bytes that are older than the file on Canvas are
   always found newer by the comparison of a later pass. *)
C3_CacheNeverFresherThanData ==
  \A k \in 1..Len(cache) :
    /\ cache[k].modifiedAt <= cache[k].data
    /\ remote[cache[k].canvasId].modified_at > cache[k].data
         => remote[cache[k].canvasId].modified_at > cache[k].modifiedAt

(* A file that changed between the listing and its download was cached *)
C3_ChangedAfterListingCached ==
  \E k \in 1..Len(cache) : cache[k].modifiedAt < cache[k].data

-----------------------------------------------------------------------------
(* Properties of the assignment aggregations, checked under SpecAssign *)

Completed(a) == a.submission \in {"submitted", "graded"}
InAgg(id) == \E k \in 1..Len(lastAgg.ids) : lastAgg.ids[k] = id
AggCourses == IF lastAgg.course = 0 THEN CourseIds ELSE {lastAgg.course}

(* C4: no upcoming aggregation holds an assignment that is due before today
   or that is submitted or graded on Canvas; an assignment of the aggregated
   courses that is due later than now and is not submitted or graded is in
   it (given that no fetch failed); and the list is ascending by due date. *)
C4_UpcomingFiltered ==
  lastAgg.view # "none" =>
    /\ \A k \in 1..Len(lastAgg.ids) :
         LET a == canvasAssignments[lastAgg.ids[k]]
         IN /\ a.due_at # NoDue
            /\ DayStart(a.due_at) >= DayStart(lastAgg.at)
            /\ ~Completed(a)
    /\ lastAgg.source # "error" =>
         \A id \in 1..Len(canvasAssignments) :
           LET a == canvasAssignments[id]
           IN ( /\ a.course_id \in AggCourses
                /\ a.due_at # NoDue
                /\ a.due_at > lastAgg.at
                /\ ~Completed(a) ) => InAgg(id)
    /\ \A i, j \in 1..Len(lastAgg.ids) :
         i < j => canvasAssignments[lastAgg.ids[i]].due_at
                    <= canvasAssignments[lastAgg.ids[j]].due_at

(* An aggregation was computed from cached assignments of a course that has
   a submitted or graded assignment *)
C4_CacheHitWithCompleted ==
  /\ lastAgg.source = "cache"
  /\ \E id \in 1..Len(canvasAssignments) : Completed(canvasAssignments[id])

-----------------------------------------------------------------------------
(* Properties of the auto-refresh timers, checked under SpecTimer *)

Interval == getAutoRefreshInterval(storedInterval)

(* C5: while the stored interval is 0 no consumer holds a timer and no step
   is a timer-driven fetch, however long ago the interval was set to 0. *)
C5_ZeroIntervalNoTimerFetch ==
  Interval = 0 =>
    /\ \A c \in Consumers : ~timer[c].active
    /\ lastEvent # "timerFetch"

(* The interval was positive, was set to 0 with a token stored and a page
   mounted, and at least the earlier interval's duration has passed since *)
C5_ZeroAndOldIntervalElapsed ==
  /\ Interval = 0
  /\ prevInterval > 0
  /\ sinceChange >= prevInterval
  /\ canvasToken
  /\ route \in {"course", "calendar"}

(* C6 as stated: right after the interval-changed broadcast every mounted
   consumer holds, if the new interval is positive, a fresh timer of the new
   interval, and holds none if it is 0. *)
C6_BroadcastRecreatesAllTimers ==
  lastEvent = "intervalChanged" =>
    \A c \in Consumers :
      Mounted(c) =>
        IF Interval > 0
          THEN timer[c] = setInterval(Interval)
          ELSE ~timer[c].active

(* C6 amended: right after the broadcast a mounted consumer holds a fresh
   timer of the new interval if that interval is positive, a token is stored
   and (calendar page) the course list is not empty, and holds none
   otherwise; and at no time does a timer tick at another period than the
   stored interval. *)
C6_BroadcastRecreatesReadyTimers ==
  /\ lastEvent = "intervalChanged" =>
       \A c \in Consumers :
         Mounted(c) =>
           IF Interval > 0 /\ canvasToken /\ (c = "calendarPage" => coursesLength # 0)
             THEN timer[c] = setInterval(Interval)
             ELSE ~timer[c].active
  /\ \A c \in Consumers : timer[c].active => timer[c].period = Interval

(* The broadcast replaced a page's and the provider's timer of another
   positive interval *)
C6_TimersRecreatedWithNewPeriod ==
  /\ lastEvent = "intervalChanged"
  /\ prevInterval > 0
  /\ Interval > 0
  /\ prevInterval # Interval
  /\ \E c \in Consumers \ {"provider"} : timer[c].active
  /\ timer["provider"].active

(* C7: a mounted consumer has, whenever a token is stored and the stored
   interval is positive, a repeating timer of that interval (the calendar
   page, which aggregates over the course list, is only asked for one while
   that list is not empty). *)
C7_MountedConsumerHasTimer ==
  \A c \in Consumers :
    ( /\ Mounted(c)
      /\ canvasToken
      /\ Interval > 0
      /\ (c = "calendarPage" => coursesLength # 0) ) =>
      (timer[c].active /\ timer[c].period = Interval)

-----------------------------------------------------------------------------
(* Properties of the folder access prober, checked under SpecFolder *)

(* C8: testFolderAccess answers false exactly for a 403 response (true for
   200, 404, any other status and a network failure), and once loadFiles
   has settled the restricted set is exactly the probed folders whose probe
   answered false, until a toggleFolder adds to it. *)
C8_RestrictedIffProbe403 ==
  /\ \A response \in Responses : ~testFolderAccess(response) <=> response = 403
  /\ pagePhase = "loaded" =>
       restrictedFolders = {f \in DOMAIN probes : probes[f] = 403}

(* loadFiles probed folders and got a 403 for one and a 404 for another *)
C8_Probed403And404 ==
  /\ pagePhase = "loaded"
  /\ \E f, g \in DOMAIN probes : probes[f] = 403 /\ probes[g] = 404

(* C9: after an expansion that listed the folder, the folder is in the
   restricted set if the listing returned no file although files_count is
   not 0, or if the listing was answered with 403. *)
C9_EmptyOrForbiddenExpansionRestricts ==
  lastToggle.fetched =>
    ( ( \/ /\ lastToggle.returned = 0
           /\ canvasFolders[lastToggle.folder].files_count > 0
        \/ lastToggle.response = 403 )
      => lastToggle.folder \in restrictedFolders )

-----------------------------------------------------------------------------
(* Properties of the hidden courses, checked under SpecCal *)

(* C10: no hidden course is in the provider's course list, in the context
   codes of the calendar's latest fetch, or among the events the calendar
   displays. *)
C10_HiddenCourseNowhere ==
  /\ \A listing \in SUBSET CourseIds :
       applyNicknamesToCourses(listing, hiddenCourses) \cap Range(hiddenCourses) = {}
  /\ courses \cap Range(hiddenCourses) = {}
  /\ contextCodes \cap Range(hiddenCourses) = {}
  /\ filteredEvents(events, selectedCourses) \cap Range(hiddenCourses) = {}

(* The calendar is open with a saved selection while a course is hidden *)
C10_CalendarOpenWithHiddenCourse ==
  /\ calendarOpen
  /\ savedSelection # <<>>
  /\ hiddenCourses # <<>>

-----------------------------------------------------------------------------
(* Properties of the persisted store, checked under SpecStore *)

DataOf(st) == [st EXCEPT !.hidden = <<>>]

(* C11: for a course that is not hidden, hideCourse followed by showCourse
   (each write accepted by localStorage) gives back the hidden list as it
   was, and no hideCourse or showCourse step changes the token or the
   nickname, chat history, uploaded files, cached Canvas files, cached text
   or cached assignments. *)
C11_HideShowRestores ==
  /\ [](\A c \in CourseIds :
          c \notin Range(store.hidden) =>
            showCourse(hideCourse(store.hidden, c), c) = store.hidden)
  /\ [][lastOp'.setter \in {"hideCourse", "showCourse"} =>
          DataOf(store') = DataOf(store)]_vars

(* A course was shown again while another course is hidden and the store
   holds data of course 1 *)
C11_ShownAgainWithData ==
  /\ lastOp.setter = "showCourse"
  /\ ~lastOp.quota
  /\ lastOp.course \notin Range(store.hidden)
  /\ store.hidden # <<>>
  /\ store.nickname /\ store.chat /\ store.uploads # {} /\ store.canvasFiles
  /\ store.texts /\ store.assignments

(* C12: a setter whose write failed on the quota raises the quota error to
   its caller. *)
C12_QuotaFailureSurfaces ==
  lastOp.quota => lastOp.raised = StorageQuotaExceeded

CachedAt(id) == {e.modifiedAt : e \in {c \in Range(cache) : c.canvasId = id}}

(* C14: a Canvas file whose extracted text is still valid is not extracted
   again on the next pass: a file that the previous pass handed to
   extraction, that this pass did not download again and whose cached
   modification time equals its current modification time on Canvas is not
   handed to extraction when the pass finishes. *)
C14_ValidTextNotExtractedAgain ==
  [][\A p \in MainPass :
       (pc[p] = "extract" /\ pc'[p] = "idle") =>
         \A id \in ctxFiles[p] :
           (~OnDownloadList(p, id) /\ CachedAt(id) = {remote[id].modified_at})
             => id \notin ctxFiles'[p]]_vars

GatewayCalls ==
  {"fetchCanvasCourses", "fetchCourseAssignments", "fetchCourseFiles",
   "fetchCourseFolders", "downloadCanvasFileAsBase64"}

NonOk(response) == response # NetworkFailure /\ ~ResponseOk(response)

SurfacesStatus(response, output) ==
  /\ output.raised
  /\ IF response = 401 THEN output = InvalidToken ELSE output.carried = {response}

(* C13: every Canvas gateway call other than the folder-files listing and
   the folder-access probe that receives a non-2xx response raises a failure
   carrying the HTTP status, a 401 being reported as the invalid-token
   condition. *)
C13_NonOkRaisesWithStatus ==
  /\ (call.fn \in GatewayCalls /\ NonOk(call.input))
       => SurfacesStatus(call.input, call.output)
  /\ (call.fn = "fetchCalendarEvents" /\ NonOk(call.input.eventsResponse))
       => SurfacesStatus(call.input.eventsResponse, call.output)

SamePair(a, b) == a.id = b.id /\ a.context_code = b.context_code

(* the returned events that stand for the assignment of that name *)
EventsOfAssignment(out, name, code) ==
  {k \in 1..Len(out) :
     out[k].type = "assignment" /\ out[k].title = name /\ out[k].context_code = code}

(* C16: the list fetchCalendarEvents returns never holds two events with the
   same (id, context_code) pair, and an assignment that is present both as a
   native calendar event and as an event derived from its due date is
   returned exactly once. *)
C16_NoDuplicatePairs ==
  (call.fn = "fetchCalendarEvents" /\ ~call.output.raised) =>
    LET in == call.input
        out == call.output.value
    IN /\ \A i, j \in 1..Len(out) : SamePair(out[i], out[j]) => i = j
       /\ \A c \in Range(in.contextCodes) :
            \A k \in 1..Len(in.lists[c]) :
              LET a == in.lists[c][k]
              IN (/\ ResponseOk(in.eventsResponse)
                  /\ \E n \in Range(in.native) :
                       n.type = "assignment" /\ n.id = a.id /\ n.context_code = c
                  /\ assignmentPromise(in.responses[c], <<a>>, c,
                                       in.startDate, in.endDate) # <<>>)
                   => Cardinality(EventsOfAssignment(out, a.name, c)) = 1

Flatten(grouped) ==
  LET RECURSIVE concat(_)
      concat(keys) ==
        IF keys = <<>> THEN <<>> ELSE grouped[Head(keys)] \o concat(Tail(keys))
  IN concat(SeqOfSet(DOMAIN grouped))

(* C17: grouping by date is deterministic and idempotent: grouping the same
   list again, or grouping the grouped events again, gives the same
   grouping; an event with all_day_date is under that date and no other,
   whatever its start_at, and the local date of start_at is the key only of
   events without all_day_date. *)
C17_GroupingByDate ==
  call.fn = "eventsByDate" =>
    LET list == call.input.list
        zone == call.input.timeZone
        grouped == call.output
    IN /\ eventsByDate(list, zone) = grouped
       /\ eventsByDate(Flatten(grouped), zone) = grouped
       /\ \A e \in Range(list), d \in DOMAIN grouped :
            e \in Range(grouped[d]) <=>
              IF e.all_day_date # NoDue THEN d = e.all_day_date
              ELSE e.start_at # NoDue /\ d = getLocalDateString(e.start_at, zone)

C17_AllDayDateBeatsStartAt ==
  /\ call.fn = "eventsByDate"
  /\ Cardinality(DOMAIN call.output) >= 2
  /\ \E e \in Range(call.input.list) :
       /\ e.all_day_date # NoDue /\ e.start_at # NoDue
       /\ e.all_day_date # getLocalDateString(e.start_at, call.input.timeZone)
       /\ e \in Range(call.output[e.all_day_date])

(* C20: fetchGoogleCalendarEvents expands a multi-day all-day event into one
   calendar event per covered day: the returned list has the event on each
   local day from its start up to the day before its end. *)
C20_MultiDayExpanded ==
  (call.fn = "fetchGoogleCalendarEvents" /\ ~call.output.raised) =>
    LET in == call.input
        out == call.output.value
    IN \A k \in 1..Len(in.vevents) :
         LET v == in.vevents[k]
         IN (/\ v.type = "VEVENT" /\ v.start # NoDue /\ v.end # NoDue
             /\ InFeedRange(v.start, in.startDate, in.endDate, in.timeZone)
             /\ isAllDay(v.start, v.end, in.timeZone)
             /\ v.end - v.start >= 2 * DayLen)
              => \A d \in getLocalDateString(v.start, in.timeZone)
                           ..(getLocalDateString(v.end, in.timeZone) - 1) :
                   \E e \in Range(out) :
                     e.id = v.uid /\ dateKey(e, in.timeZone) = d

(* the assignments Canvas holds that the headline may show at time t *)
OpenExams(t) ==
  {a \in Range(canvasAssignments) :
     /\ a.due_at # NoDue /\ DayStart(a.due_at) >= DayStart(t)
     /\ ~Completed(a)
     /\ isExam(a.name)}

(* C15: the days-until-exam headline is the earliest-due assignment, over
   all listed courses, among those due today or later, not submitted or
   graded and named with exam, final, midterm or test; there is a headline
   exactly when there is such an assignment, and no other assignment is
   ever the headline (loads in which a course's fetch failed aside). *)
C15_HeadlineIsNearestOpenExam ==
  (lastAgg.view = "DaysUntilExam" /\ lastAgg.source # "error") =>
    IF OpenExams(lastAgg.at) = {} THEN lastAgg.ids = <<>>
    ELSE /\ lastAgg.ids # <<>>
         /\ \E a \in OpenExams(lastAgg.at) :
              /\ a.id = lastAgg.ids[1]
              /\ \A b \in OpenExams(lastAgg.at) : a.due_at <= b.due_at

(* the selection the user has: every course until a toggle saved one *)
Selection == IF savedSelection = <<>> THEN courses ELSE savedSelection[1]

(* C18: while the calendar page is open, after any toggles and reloads, the
   page's selection is all courses if no selection was ever saved and the
   saved selection otherwise, and the events shown are exactly the fetched
   events of the courses in it; opening the page leaves the saved selection
   as it is and restores it. *)
C18_ShownIsSelectedFetched ==
  /\ [](calendarOpen =>
          /\ selectedCourses = <<Selection>>
          /\ filteredEvents(events, selectedCourses) = events \cap Selection)
  /\ [][(~calendarOpen /\ calendarOpen') =>
          /\ savedSelection' = savedSelection
          /\ savedSelection # <<>> => selectedCourses' = savedSelection]_vars

(* The page was opened again with a narrowed selection saved, and holds a
   fetched event of a course that is not selected *)
C18_NarrowedSelectionRestored ==
  /\ calendarOpen
  /\ savedSelection # <<>> /\ savedSelection[1] # courses
  /\ events \ Selection # {}
  /\ filteredEvents(events, selectedCourses) # {}

-----------------------------------------------------------------------------
(* Properties of the sync page, checked under SpecSync *)

(* C19: a sync whose validation fails aborts the whole action and shows an
   error (the invalid-token one for a 401): the stored token is left as it
   was and no course refresh is started; the stored token changes only when
   fetchCanvasCourses has succeeded with the typed token, and then to that
   token. *)
C19_FailedSyncLeavesToken ==
  /\ [][(syncPc = "validating" /\ syncPc' # "validating" /\ ~ResponseOk(syncResponse'))
          => /\ storedToken' = storedToken
             /\ refreshCount' = refreshCount
             /\ syncPc' = "idle" /\ ~isSuccess'
             /\ syncError' # NoError
             /\ syncResponse' = 401 => syncError' = InvalidToken.message]_vars
  /\ [][storedToken' # storedToken
          => /\ syncPc = "validating" /\ ResponseOk(syncResponse')
             /\ syncToken \in validTokens
             /\ storedToken' = syncToken]_vars

(* A sync with a token Canvas rejects was refused while another token was
   stored, after an earlier sync had succeeded *)
C19_InvalidTokenRefused ==
  /\ syncPc = "idle" /\ syncResponse = 401
  /\ syncError = InvalidToken.message
  /\ storedToken \in Tokens /\ syncToken \in Tokens /\ storedToken # syncToken
  /\ refreshCount > 0

-----------------------------------------------------------------------------
(* The downloads of a pass that have been issued and have not settled *)
InFlight(p) == {k \in 1..Len(results[p]) : results[p][k] = Pending}

(* C21: a pass issues its downloads in batches of at most BATCH_SIZE (10)
   files and starts no download of the next batch before every download of
   the present batch has settled, so that at most 10 downloads of the pass
   are in flight at any moment *)
C21_BatchesOfTenInSequence ==
  [][\A p \in MainPass :
       /\ Len(results'[p]) <= BATCH_SIZE
       /\ Cardinality(InFlight(p)') <= BATCH_SIZE
       /\ batchStart'[p] > batchStart[p]
            => /\ InFlight(p) = {}
               /\ batchStart'[p] = batchStart[p] + BATCH_SIZE]_vars

(* the second batch of a pass is in flight after the first was cached *)
C21_SecondBatchInFlight ==
  /\ pc[1] = "downloading"
  /\ batchStart[1] = BATCH_SIZE
  /\ InFlight(1) # {}
  /\ Len(cache) >= 1

-----------------------------------------------------------------------------
(* C22: a download that fails aborts neither its batch nor the later ones:
   every file of the batch whose download succeeded is written to the cache,
   the failed file gets no fresh entry and the loop goes on to the next
   batch; and a file whose download failed is on the download-needed list
   again when the next pass lists it *)
C22_FailedDownloadIsolated ==
  [][\A p \in MainPass :
       /\ (pc[p] = "downloading" /\ batchStart'[p] > batchStart[p])
            => /\ \A k \in 1..Len(Batch(p)) :
                    IF results[p][k] # Failed
                      THEN NewCachedFile(Batch(p)[k], results[p][k]) \in Range(cache')
                      ELSE MapGet(cache', Batch(p)[k].id) = MapGet(cache, Batch(p)[k].id)
               /\ batchStart'[p] < Len(filesToDownload[p])
                    => /\ pc'[p] = "downloading"
                       /\ Len(results'[p]) >= 1
                       /\ \A k \in 1..Len(results'[p]) : results'[p][k] = Pending
       /\ (pc[p] = "listing" /\ pc'[p] # "listing")
            => \A id \in failedIds[p] :
                 (\E k \in 1..Len(supportedFiles'[p]) : supportedFiles'[p][k].id = id)
                   => \E k \in 1..Len(filesToDownload'[p]) : filesToDownload'[p][k].id = id]_vars

(* the first file failed in a pass that cached the rest of its batch, and the
   pass after it is downloading that file again *)
C22_FailedFileDownloadedAgain ==
  /\ pc[1] = "downloading"
  /\ Len(cache) >= BATCH_SIZE - 1
  /\ MapGet(cache, 1) = NoEntry
  /\ Len(filesToDownload[1]) <= 2
  /\ filesToDownload[1][1].id = 1

-----------------------------------------------------------------------------
(* the entry of course c is there and at most 5 minutes old *)
FreshEntry(c) == assignCache[c] # NoCache /\ now - assignCache[c].cachedAt <= 5

(* the entry a successful fetch of course c writes now *)
FetchedEntry(c) ==
  [assignments |-> [k \in 1..Len(AssignmentsOf(c)) |->
                      [id |-> AssignmentsOf(c)[k].id, name |-> AssignmentsOf(c)[k].name,
                       due_at |-> AssignmentsOf(c)[k].due_at, course_id |-> c]],
   cachedAt |-> now]

(* C23: a consumer is given a course's cached assignments only while the
   entry is at most 5 minutes old; an older entry counts as absent: the
   consumer fetches from Canvas and a fetch that succeeds overwrites the
   entry with one whose cachedAt is the present time *)
C23_EntryServedForFiveMinutes ==
  [][/\ (lastAgg' # lastAgg /\ lastAgg'.view = "ClassCard")
          => LET c == lastAgg'.course
             IN IF FreshEntry(c)
                  THEN lastAgg'.source = "cache" /\ assignCache' = assignCache
                  ELSE /\ lastAgg'.source \in {"fetch", "error"}
                       /\ lastAgg'.source = "fetch" => assignCache'[c] = FetchedEntry(c)
                       /\ lastAgg'.source = "error" => assignCache' = assignCache
     /\ (lastAgg' # lastAgg /\ lastAgg'.view = "DaysUntilExam")
          => \A c \in CourseIds :
               IF FreshEntry(c) THEN assignCache'[c] = assignCache[c]
               ELSE assignCache'[c] \in {assignCache[c], FetchedEntry(c)}
     /\ (lastAgg' # lastAgg /\ lastAgg'.view = "DaysUntilExam" /\ lastAgg'.source = "fetch")
          => \A c \in CourseIds : ~FreshEntry(c) /\ assignCache'[c] = FetchedEntry(c)]_vars

(* the entry of the first course was written after the sixth minute while
   the second course still holds one that has expired *)
C23_ExpiredEntryAndFreshWrite ==
  /\ now > 5
  /\ assignCache[1] # NoCache /\ assignCache[1].cachedAt = now
  /\ assignCache[2] # NoCache /\ now - assignCache[2].cachedAt > 5
  /\ lastAgg.view = "ClassCard" /\ lastAgg.source = "fetch"

-----------------------------------------------------------------------------
(* the courses that gave the days-until-exam load their assignments: from a
   fresh entry, or from a fetch that succeeded and was cached in this step *)
Contributing == {c \in CourseIds : FreshEntry(c) \/ assignCache'[c] # assignCache[c]}

(* C24: in the aggregation over all courses, a course whose fetch fails
   contributes nothing and takes nothing away: the open exams of every other
   course are all aggregated, and the headline is the earliest due of them *)
C24_FailedCourseAloneIsEmpty ==
  [][(lastAgg' # lastAgg /\ lastAgg'.view = "DaysUntilExam")
       => LET exams == {a \in OpenExams(now) : a.course_id \in Contributing}
          IN /\ {lastAgg'.ids[k] : k \in 1..Len(lastAgg'.ids)} = {a.id : a \in exams}
             /\ exams # {}
                  => \E a \in exams : /\ a.id = lastAgg'.ids[1]
                                       /\ \A b \in exams : a.due_at <= b.due_at]_vars

(* a load in which a course's fetch failed has a headline all the same *)
C24_HeadlineDespiteFailure ==
  /\ lastAgg.view = "DaysUntilExam"
  /\ lastAgg.source = "error"
  /\ lastAgg.ids # <<>>
  /\ \E c \in CourseIds : assignCache[c] = NoCache

-----------------------------------------------------------------------------
(* C25: a consumer that is not mounted holds no interval and no
   interval-changed listener: its handle is cleared, the browser runs no
   interval of it, so that no tick of it fires, and no broadcast reaches it *)
C25_UnmountedConsumerQuiet ==
  \A c \in Consumers :
    ~Mounted(c) => /\ ~timer[c].active
                   /\ liveTimers[c] = 0
                   /\ listeners[c] = 0

(* the interval was changed while the course page is shown, the calendar
   page is not mounted and the timers of the mounted consumers run *)
C25_BroadcastAfterPageLeft ==
  /\ route = "course"
  /\ lastEvent = "intervalChanged"
  /\ coursesLength > 0
  /\ timer["provider"].active /\ timer["coursePage"].active

(* C27: every consumer has at most one interval running at any time, the one
   its handle holds: setting a timer up clears the previous one first *)
C27_OneTimerPerConsumer ==
  \A c \in Consumers :
    /\ liveTimers[c] <= 1
    /\ liveTimers[c] = 1 <=> timer[c].active

(* a broadcast has replaced the running timers of the provider and of the
   calendar page *)
C27_TimersReplacedByBroadcast ==
  /\ lastEvent = "intervalChanged"
  /\ prevInterval > 0
  /\ liveTimers["provider"] = 1
  /\ liveTimers["calendarPage"] = 1
  /\ timer["calendarPage"].period # prevInterval

-----------------------------------------------------------------------------
(* C26: on the course page no folder is at once in the restricted set and in
   the expanded set, whatever loads and toggles came before *)
C26_RestrictedNeverExpanded ==
  restrictedFolders \cap expandedFolders = {}

-----------------------------------------------------------------------------
(* C28: whatever the interleaving of the passes of a course, the modifiedAt
   the cache holds for a canvasId never decreases, and no write of one pass
   removes or replaces by an older one an entry another pass wrote *)
C28_ModifiedAtNeverDecreases ==
  [][\A id \in FileIds :
       \A old \in CachedAt(id) :
         /\ CachedAt(id)' # {}
         /\ \A new \in CachedAt(id)' : new >= old]_vars

-----------------------------------------------------------------------------
(* the entries of the cached list with the canvasId, and the list without them *)
EntriesOf(files, id) == SelectSeq(files, LAMBDA e : e.canvasId = id)
EntriesBut(files, id) == SelectSeq(files, LAMBDA e : e.canvasId # id)

(* C29: after any sequence of cacheCanvasFile calls the course's list holds
   at most one entry per canvasId; a call that stores its file leaves exactly
   that file as the entry of its canvasId and the entries of the other
   canvasIds as they were *)
C29_OneEntryPerIdLatestWins ==
  [][/\ \A id \in FileIds : Len(EntriesOf(cache', id)) <= 1
     /\ call'.fn = "cacheCanvasFile"
          => IF call'.output = NoError
               THEN /\ EntriesOf(cache', call'.input.canvasId) = <<call'.input>>
                    /\ EntriesBut(cache', call'.input.canvasId)
                         = EntriesBut(cache, call'.input.canvasId)
               ELSE cache' = cache]_vars

(* the first of two entries has just been replaced by a later write of its
   canvasId *)
C29_EarlierEntryReplaced ==
  /\ Len(cache) = 2
  /\ call.fn = "cacheCanvasFile" /\ call.output = NoError
  /\ cache[1] = call.input
  /\ cache[1].modifiedAt = MaxVer

-----------------------------------------------------------------------------
(* C30: a pass whose Canvas work raised (the listing, the classification or
   a cache write) still completes: the catch leaves the cache as it is and
   goes on, the files handed to extraction are the Canvas files the cache
   held when the failure happened, and the pass ends with isExtractingFiles
   reset *)
C30_PassCompletesAfterFailure ==
  [][\A p \in MainPass :
       /\ (pc[p] = "caught" /\ pc'[p] # "caught") => (pc'[p] = "extract" /\ cache' = cache)
       /\ (caughtError[p] /\ pc[p] = "extract" /\ pc'[p] = "idle")
            => /\ ctxFiles'[p] = IF canvasToken THEN {e.canvasId : e \in Range(cache)} ELSE {}
               /\ cache' = cache
               /\ ~isExtractingFiles']_vars

====
